---------------------------- MODULE Spec2Model ----------------------------
(***************************************************************************)
(* Model of the Authy backup decryptor (src/decrypt.py), of the otpauth    *)
(* URI generator (src/generate_uris.py) and of the script runner           *)
(* (src/main.py).                                                          *)
(*                                                                         *)
(* Bytes are integers 0..255, byte strings and text strings are sequences  *)
(* of integers (byte values, resp. Unicode code points).  A call to a      *)
(* function of the program yields a Result: either a returned value or a   *)
(* raised exception, with the source line of the return/raise statement.   *)
(* The message of an exception is text too; the message of the             *)
(* UnicodeDecodeError, which the program never shows, is left empty.       *)
(***************************************************************************)
EXTENDS Integers, Sequences, FiniteSets, TLC

VARIABLES
    pc,                \* position in process_authenticator_data
    input_file,        \* what open()/json.load() find on disk
    tokens,            \* data["authenticator_tokens"] once loaded
    backup_password,   \* the passphrase handed to the batch
    i,                 \* loop index of decrypt_all_tokens (0-based)
    decrypted_tokens,  \* the list built by decrypt_all_tokens
    decrypt_calls,     \* the indices of the tokens handed to decrypt_token
    output_file,       \* the sequence of documents written to the output file
    callee,            \* unit harness: the function under call
    arg,               \* unit harness: its argument
    ret,               \* unit harness: its Result, or Pending
    uri_files,         \* URIs.json and URIs.txt as generate_uris.py left them
    main_pc,           \* position in main() of main.py
    script_index,      \* 0-based position of the for loop over scripts
    started,           \* the scripts handed to subprocess.run, in order
    return_codes,      \* the return codes of the scripts that have exited
    answers,           \* what input() has returned, in order
    skipped,           \* the scripts main() has announced it skips
    exit_status        \* <<>> while main.py runs, then <<its exit status>>

vars == <<pc, input_file, tokens, backup_password, i, decrypted_tokens,
          decrypt_calls, output_file, callee, arg, ret, uri_files,
          main_pc, script_index, started, return_codes, answers, skipped,
          exit_status>>

batch_vars == <<pc, input_file, tokens, backup_password, i, decrypted_tokens,
                decrypt_calls, output_file>>

unit_vars == <<callee, arg, ret>>

uri_vars == <<uri_files>>

main_vars == <<main_pc, script_index, started, return_codes, answers, skipped,
               exit_status>>

(***************************************************************************)
(* Generic helpers                                                         *)
(***************************************************************************)
Byte == 0..255

\* The sequence of n copies of b.
Fill(b, n) == [k \in 1..n |-> b]

\* Python slice s[a:b] for 0 <= a, with 0-based bounds.
Slice(s, a, b) == SubSeq(s, a + 1, b)

\* All sequences over S of length at most n.
SeqsUpTo(S, n) == UNION {[1..k -> S] : k \in 0..n}

\* The concatenation of the sequences ss[lo], ..., ss[hi].
RECURSIVE ConcatRange(_, _, _)
ConcatRange(ss, lo, hi) ==
    IF lo > hi THEN <<>>
    ELSE IF lo = hi THEN ss[lo]
    ELSE ConcatRange(ss, lo, (lo + hi) \div 2)
             \o ConcatRange(ss, (lo + hi) \div 2 + 1, hi)

Concat(ss) == ConcatRange(ss, 1, Len(ss))

\* Results of calls: a returned value, or a raised exception with its type
\* and its message str(e).
Return(line, val) ==
    [ok |-> TRUE, val |-> val, exc |-> "", msg |-> <<>>, line |-> line]
Raise(line, exc, msg) ==
    [ok |-> FALSE, val |-> <<>>, exc |-> exc, msg |-> msg, line |-> line]
Pending == [ok |-> FALSE, val |-> <<>>, exc |-> "pending", msg |-> <<>>, line |-> 0]

\* str(n) for a natural number n
RECURSIVE Decimal(_)
Decimal(n) == IF n < 10 THEN <<48 + n>> ELSE Decimal(n \div 10) \o <<48 + (n % 10)>>

(***************************************************************************)
(* The texts of the program and of its libraries' exceptions               *)
(***************************************************************************)
\* "index out of range"
Msg_IndexOutOfRange ==
    <<105, 110, 100, 101, 120, 32, 111, 117, 116, 32, 111, 102, 32, 114,
      97, 110, 103, 101>>

\* "Invalid padding length"
Msg_InvalidPaddingLength ==
    <<73, 110, 118, 97, 108, 105, 100, 32, 112, 97, 100, 100, 105, 110,
      103, 32, 108, 101, 110, 103, 116, 104>>

\* "Invalid padding bytes"
Msg_InvalidPaddingBytes ==
    <<73, 110, 118, 97, 108, 105, 100, 32, 112, 97, 100, 100, 105, 110,
      103, 32, 98, 121, 116, 101, 115>>

\* "Decryption failed: "
Msg_DecryptionFailed ==
    <<68, 101, 99, 114, 121, 112, 116, 105, 111, 110, 32, 102, 97, 105,
      108, 101, 100, 58, 32>>

\* "Incorrect padding"
Msg_IncorrectPadding ==
    <<73, 110, 99, 111, 114, 114, 101, 99, 116, 32, 112, 97, 100, 100,
      105, 110, 103>>

\* "Invalid base64-encoded string: number of data characters ("
Msg_InvalidBase64Head ==
    <<73, 110, 118, 97, 108, 105, 100, 32, 98, 97, 115, 101, 54, 52, 45,
      101, 110, 99, 111, 100, 101, 100, 32, 115, 116, 114, 105, 110,
      103, 58, 32, 110, 117, 109, 98, 101, 114, 32, 111, 102, 32, 100,
      97, 116, 97, 32, 99, 104, 97, 114, 97, 99, 116, 101, 114, 115, 32,
      40>>

\* ") cannot be 1 more than a multiple of 4"
Msg_InvalidBase64Tail ==
    <<41, 32, 99, 97, 110, 110, 111, 116, 32, 98, 101, 32, 49, 32, 109,
      111, 114, 101, 32, 116, 104, 97, 110, 32, 97, 32, 109, 117, 108,
      116, 105, 112, 108, 101, 32, 111, 102, 32, 52>>

\* "string argument should contain only ASCII characters"
Msg_OnlyAscii ==
    <<115, 116, 114, 105, 110, 103, 32, 97, 114, 103, 117, 109, 101,
      110, 116, 32, 115, 104, 111, 117, 108, 100, 32, 99, 111, 110, 116,
      97, 105, 110, 32, 111, 110, 108, 121, 32, 65, 83, 67, 73, 73, 32,
      99, 104, 97, 114, 97, 99, 116, 101, 114, 115>>

\* "non-hexadecimal number found in fromhex() arg at position "
Msg_NonHex ==
    <<110, 111, 110, 45, 104, 101, 120, 97, 100, 101, 99, 105, 109, 97,
      108, 32, 110, 117, 109, 98, 101, 114, 32, 102, 111, 117, 110, 100,
      32, 105, 110, 32, 102, 114, 111, 109, 104, 101, 120, 40, 41, 32,
      97, 114, 103, 32, 97, 116, 32, 112, 111, 115, 105, 116, 105, 111,
      110, 32>>

\* "Invalid IV length: "
Msg_InvalidIVLength ==
    <<73, 110, 118, 97, 108, 105, 100, 32, 73, 86, 32, 108, 101, 110,
      103, 116, 104, 58, 32>>

\* "The length of the provided data is not a multiple of the block length."
Msg_NotBlockMultiple ==
    <<84, 104, 101, 32, 108, 101, 110, 103, 116, 104, 32, 111, 102, 32,
      116, 104, 101, 32, 112, 114, 111, 118, 105, 100, 101, 100, 32,
      100, 97, 116, 97, 32, 105, 115, 32, 110, 111, 116, 32, 97, 32,
      109, 117, 108, 116, 105, 112, 108, 101, 32, 111, 102, 32, 116,
      104, 101, 32, 98, 108, 111, 99, 107, 32, 108, 101, 110, 103, 116,
      104, 46>>

(***************************************************************************)
(* remove_padding (src/decrypt.py:119-145)                                 *)
(***************************************************************************)
\* The AES block size, the largest padding length accepted (line 133).
BlockSize == 16

\* A plausible slip: the padding bytes are not compared with padding_len.
remove_padding_unchecked(decrypted_data) ==
    IF decrypted_data = <<>> THEN Raise(128, "IndexError", Msg_IndexOutOfRange)
    ELSE LET padding_len == decrypted_data[Len(decrypted_data)]
             padding_start == Len(decrypted_data) - padding_len
         IN  IF padding_len > BlockSize \/ padding_start < 0
             THEN Raise(134, "ValueError", Msg_InvalidPaddingLength)
             ELSE Return(145, Slice(decrypted_data, 0, padding_start))

\* A plausible slip: empty data are returned as they are.
remove_padding_empty_ok(decrypted_data) ==
    IF decrypted_data = <<>> THEN Return(145, <<>>)
    ELSE LET padding_len == decrypted_data[Len(decrypted_data)]
             padding_start == Len(decrypted_data) - padding_len
         IN  IF padding_len > BlockSize \/ padding_start < 0
             THEN Raise(134, "ValueError", Msg_InvalidPaddingLength)
             ELSE LET padding_bytes ==
                          Slice(decrypted_data, padding_start, Len(decrypted_data))
                  IN  IF \E k \in DOMAIN padding_bytes : padding_bytes[k] # padding_len
                      THEN Raise(139, "ValueError", Msg_InvalidPaddingBytes)
                      ELSE Return(145, Slice(decrypted_data, 0, padding_start))

\* A plausible slip: the range check refuses a whole block of padding.
remove_padding_no_full_block(decrypted_data) ==
    IF decrypted_data = <<>> THEN Raise(128, "IndexError", Msg_IndexOutOfRange)
    ELSE LET padding_len == decrypted_data[Len(decrypted_data)]
             padding_start == Len(decrypted_data) - padding_len
         IN  IF padding_len >= BlockSize \/ padding_start < 0
             THEN Raise(134, "ValueError", Msg_InvalidPaddingLength)
             ELSE LET padding_bytes ==
                          Slice(decrypted_data, padding_start, Len(decrypted_data))
                  IN  IF \E k \in DOMAIN padding_bytes : padding_bytes[k] # padding_len
                      THEN Raise(139, "ValueError", Msg_InvalidPaddingBytes)
                      ELSE Return(145, Slice(decrypted_data, 0, padding_start))

remove_padding(decrypted_data) ==
    IF decrypted_data = <<>> THEN Raise(128, "IndexError", Msg_IndexOutOfRange)
    ELSE LET padding_len == decrypted_data[Len(decrypted_data)]
             padding_start == Len(decrypted_data) - padding_len
         IN  IF padding_len > BlockSize \/ padding_start < 0
             THEN Raise(134, "ValueError", Msg_InvalidPaddingLength)
             ELSE LET padding_bytes ==
                          Slice(decrypted_data, padding_start, Len(decrypted_data))
                  IN  IF \E k \in DOMAIN padding_bytes : padding_bytes[k] # padding_len
                      THEN Raise(139, "ValueError", Msg_InvalidPaddingBytes)
                      ELSE Return(145, Slice(decrypted_data, 0, padding_start))

(***************************************************************************)
(* Unit specification of remove_padding: the argument is any byte string   *)
(* made of a short prefix followed by a run of one byte value.             *)
(***************************************************************************)
MaxPadPrefix == 2
MaxPadRun == 17
PadPrefixBytes == {1, 16, 65}
PadRunBytes == {0, 1, 2, 3, 15, 16, 17, 255}

PadInputs ==
    {p \o Fill(n, k) : p \in SeqsUpTo(PadPrefixBytes, MaxPadPrefix),
                       n \in PadRunBytes, k \in 0..MaxPadRun}

\* A file that was not written, and a file written with the given content.
NotWritten == [written |-> FALSE, content |-> <<>>]
Written(content) == [written |-> TRUE, content |-> content]

\* Neither URIs.json nor URIs.txt has been written.
UriIdle == uri_files = [json |-> NotWritten, txt |-> NotWritten]

\* main.py is not running.
MainIdle ==
    /\ main_pc = "idle"
    /\ script_index = 0
    /\ started = <<>>
    /\ return_codes = <<>>
    /\ answers = <<>>
    /\ skipped = <<>>
    /\ exit_status = <<>>

BatchIdle ==
    /\ pc = "idle"
    /\ input_file = [state |-> "absent", tokens |-> <<>>]
    /\ tokens = <<>>
    /\ backup_password = <<>>
    /\ i = 0
    /\ decrypted_tokens = <<>>
    /\ decrypt_calls = <<>>
    /\ output_file = <<>>

InitPad ==
    /\ BatchIdle
    /\ UriIdle
    /\ MainIdle
    /\ callee = "remove_padding"
    /\ arg \in PadInputs
    /\ ret = Pending

CallRemovePadding ==
    /\ callee = "remove_padding"
    /\ ret = Pending
    /\ ret' = remove_padding(arg)
    /\ UNCHANGED <<callee, arg>>
    /\ UNCHANGED batch_vars
    /\ UNCHANGED uri_vars
    /\ UNCHANGED main_vars

NextPad == CallRemovePadding

SpecPad == InitPad /\ [][NextPad]_vars

Returned(f) == callee = f /\ ret # Pending

\* The last byte of the argument, the claimed padding length.
LastByte(data) == data[Len(data)]

\* C4: for data whose last byte n has 1 <= n <= 16, n <= len(data) and whose
\* last n bytes all equal n, remove_padding returns exactly data[:len(data)-n].
C4_ValidPaddingStripped ==
    (Returned("remove_padding") /\ arg # <<>>) =>
        LET n == LastByte(arg) IN
        (/\ 1 <= n /\ n <= BlockSize /\ n <= Len(arg)
         /\ \A k \in (Len(arg) - n + 1)..Len(arg) : arg[k] = n)
        => /\ ret.ok
           /\ ret.val = SubSeq(arg, 1, Len(arg) - n)

\* The boundary case of C4 has happened: a block of sixteen bytes of value 16
\* was stripped to the empty byte string.
C4_Witness ==
    /\ Returned("remove_padding")
    /\ arg = Fill(BlockSize, BlockSize)
    /\ ret.ok /\ ret.val = <<>>

\* C5: for non-empty data with last byte n, if n > 16, or n > len(data), or
\* some byte of the last n bytes differs from n, remove_padding raises the
\* invalid-padding error and returns nothing.
C5_InvalidPaddingRejected ==
    (Returned("remove_padding") /\ arg # <<>>) =>
        LET n == LastByte(arg) IN
        (\/ n > BlockSize
         \/ n > Len(arg)
         \/ \E k \in (Len(arg) - n + 1)..Len(arg) : arg[k] # n)
        => /\ ~ret.ok
           /\ ret.msg \in {Msg_InvalidPaddingLength, Msg_InvalidPaddingBytes}

\* A case of C5 has happened: claimed padding whose bytes are inconsistent.
C5_Witness ==
    /\ Returned("remove_padding")
    /\ arg = <<65, 1, 3, 3>>
    /\ ~ret.ok /\ ret.msg = Msg_InvalidPaddingBytes

\* C3: for every non-empty byte string whose last byte is 0, remove_padding
\* fails with an invalid-padding error instead of returning bytes.
C3_ZeroPaddingRejected ==
    (Returned("remove_padding") /\ arg # <<>> /\ LastByte(arg) = 0) =>
        /\ ~ret.ok
        /\ ret.msg \in {Msg_InvalidPaddingLength, Msg_InvalidPaddingBytes}

(***************************************************************************)
(* decode_decrypted_seed (src/decrypt.py:148-181)                          *)
(***************************************************************************)
\* bytes.decode("utf-8"): the number of bytes of the character that starts
\* with lead byte b, 0 when b cannot start a character.
Utf8Width(b) ==
    IF b < 128 THEN 1
    ELSE IF b >= 194 /\ b <= 223 THEN 2
    ELSE IF b >= 224 /\ b <= 239 THEN 3
    ELSE IF b >= 240 /\ b <= 244 THEN 4
    ELSE 0

IsCont(b) == b >= 128 /\ b <= 191

\* The second byte of a character is restricted after E0, ED, F0 and F4
\* (overlong forms, surrogates, code points above U+10FFFF).
Utf8SecondOk(lead, b) ==
    IF lead = 224 THEN b >= 160 /\ b <= 191
    ELSE IF lead = 237 THEN b >= 128 /\ b <= 159
    ELSE IF lead = 240 THEN b >= 144 /\ b <= 191
    ELSE IF lead = 244 THEN b >= 128 /\ b <= 143
    ELSE IsCont(b)

Utf8CodePoint(d, p, w) ==
    IF w = 1 THEN d[p]
    ELSE IF w = 2 THEN (d[p] % 32) * 64 + (d[p + 1] % 64)
    ELSE IF w = 3 THEN (d[p] % 16) * 4096 + (d[p + 1] % 64) * 64 + (d[p + 2] % 64)
    ELSE (d[p] % 8) * 262144 + (d[p + 1] % 64) * 4096
             + (d[p + 2] % 64) * 64 + (d[p + 3] % 64)

RECURSIVE utf8_from(_, _)
utf8_from(d, p) ==
    IF p > Len(d) THEN Return(157, <<>>)
    ELSE LET w == Utf8Width(d[p]) IN
         IF \/ w = 0
            \/ p + w - 1 > Len(d)
            \/ (w >= 2 /\ ~Utf8SecondOk(d[p], d[p + 1]))
            \/ \E k \in 2..(w - 1) : ~IsCont(d[p + k])
         THEN Raise(157, "UnicodeDecodeError", <<>>)
         ELSE LET rest == utf8_from(d, p + w) IN
              IF rest.ok THEN Return(157, <<Utf8CodePoint(d, p, w)>> \o rest.val)
              ELSE rest

\* decrypted_seed_without_padding.decode("utf-8") (line 157).
utf8_decode(data) == utf8_from(data, 1)

\* str.upper() of one character, for the code points up to U+017F (the
\* inputs of the model decode to no others).  One character can become two.
UpperChar(c) ==
    IF c >= 97 /\ c <= 122 THEN <<c - 32>>
    ELSE IF c = 181 THEN <<924>>
    ELSE IF c = 223 THEN <<83, 83>>
    ELSE IF c >= 224 /\ c <= 254 /\ c # 247 THEN <<c - 32>>
    ELSE IF c = 255 THEN <<376>>
    ELSE IF c = 305 THEN <<73>>
    ELSE IF c = 329 THEN <<700, 78>>
    ELSE IF c = 383 THEN <<83>>
    ELSE IF ((c >= 256 /\ c <= 311) \/ (c >= 330 /\ c <= 375)) /\ c % 2 = 1
         THEN <<c - 1>>
    ELSE IF ((c >= 313 /\ c <= 328) \/ (c >= 377 /\ c <= 382)) /\ c % 2 = 0
         THEN <<c - 1>>
    ELSE <<c>>

\* str.upper()
Upper(s) == Concat([k \in DOMAIN s |-> UpperChar(s[k])])

\* str.replace(" ", "")
RemoveSpaces(s) == Concat([k \in DOMAIN s |-> IF s[k] = 32 THEN <<>> ELSE <<s[k]>>])

\* The character class [A-Z2-7=] of both regular expressions.
IsBase32Char(c) == (c >= 65 /\ c <= 90) \/ (c >= 50 /\ c <= 55) \/ c = 61

\* The number of consecutive [A-Z2-7=] characters of s from position p on
\* (1-based): what a greedy [A-Z2-7=]* consumes there.
RECURSIVE Base32Span(_, _)
Base32Span(s, p) ==
    IF p > Len(s) \/ ~IsBase32Char(s[p]) THEN 0 ELSE 1 + Base32Span(s, p + 1)

\* re.match(r"^[A-Z2-7=]+$", s): "$" matches at the end of the string and
\* also just before a line feed that ends the string.
re_match_base32(s) ==
    LET k == Base32Span(s, 1) IN
    /\ k >= 1
    /\ \/ k = Len(s)
       \/ (k = Len(s) - 1 /\ s[Len(s)] = 10)

\* The least number of characters of the pattern [A-Z2-7=]{10,} (line 174).
MinRunLen == 10

NoMatch == [found |-> FALSE, start |-> 0, group |-> <<>>]

\* A plausible variant: the longest run is chosen, the first among equals.
RECURSIVE re_search_longest_from(_, _, _)
re_search_longest_from(s, p, best) ==
    IF p > Len(s) THEN best
    ELSE LET k == Base32Span(s, p) IN
         IF k >= MinRunLen
         THEN re_search_longest_from(s, p + k,
                  IF k > Len(best.group)
                  THEN [found |-> TRUE, start |-> p, group |-> SubSeq(s, p, p + k - 1)]
                  ELSE best)
         ELSE re_search_longest_from(s, p + 1, best)

re_search_base32_longest(s) == re_search_longest_from(s, 1, NoMatch)

\* A plausible variant: a lazy quantifier, which stops after ten characters.
RECURSIVE re_search_lazy_from(_, _)
re_search_lazy_from(s, p) ==
    IF p > Len(s) THEN NoMatch
    ELSE IF Base32Span(s, p) >= MinRunLen
         THEN [found |-> TRUE, start |-> p, group |-> SubSeq(s, p, p + MinRunLen - 1)]
         ELSE re_search_lazy_from(s, p + 1)

re_search_base32_lazy(s) == re_search_lazy_from(s, 1)

\* re.search(r"[A-Z2-7=]{10,}", s): the leftmost position where the pattern
\* matches, and there the greedy (longest) match.
RECURSIVE re_search_from(_, _)
re_search_from(s, p) ==
    IF p > Len(s) THEN NoMatch
    ELSE LET k == Base32Span(s, p) IN
         IF k >= MinRunLen
         THEN [found |-> TRUE, start |-> p, group |-> SubSeq(s, p, p + k - 1)]
         ELSE re_search_from(s, p + 1)

re_search_base32(s) == re_search_from(s, 1)

\* The bounds of printable ASCII (line 169) and the least length of an
\* ASCII string returned as it is (line 178).
PrintableLo == 32
PrintableHi == 126
MinAsciiLen == 8

\* [chr(b) for b in data if 32 <= b <= 126], joined (lines 169-170).
ExtractAscii(data) ==
    Concat([k \in DOMAIN data |->
               IF PrintableLo <= data[k] /\ data[k] <= PrintableHi
               THEN <<data[k]>> ELSE <<>>])

HexDigit(n) == IF n < 10 THEN 48 + n ELSE 55 + n

\* bytes.hex().upper() (line 181)
HexUpper(data) ==
    Concat([k \in DOMAIN data |-> <<HexDigit(data[k] \div 16), HexDigit(data[k] % 16)>>])

\* A plausible slip: the UnicodeDecodeError is not caught.
decode_decrypted_seed_uncaught(decrypted_seed_without_padding) ==
    LET utf8_result == utf8_decode(decrypted_seed_without_padding) IN
    IF utf8_result.ok
    THEN LET normalized == RemoveSpaces(Upper(utf8_result.val)) IN
         IF re_match_base32(normalized)
         THEN Return(162, normalized)
         ELSE Return(164, utf8_result.val)
    ELSE utf8_result

\* A plausible slip: the extraction is returned in upper case, as it was
\* searched.
decode_decrypted_seed_upper_ascii(decrypted_seed_without_padding) ==
    LET utf8_result == utf8_decode(decrypted_seed_without_padding) IN
    IF utf8_result.ok
    THEN LET normalized == RemoveSpaces(Upper(utf8_result.val)) IN
         IF re_match_base32(normalized)
         THEN Return(162, normalized)
         ELSE Return(164, utf8_result.val)
    ELSE LET ascii_string == Upper(ExtractAscii(decrypted_seed_without_padding))
             base32_match == re_search_base32(ascii_string)
         IN  IF base32_match.found
             THEN Return(176, base32_match.group)
             ELSE IF Len(ascii_string) >= MinAsciiLen
                  THEN Return(179, ascii_string)
                  ELSE Return(181, HexUpper(decrypted_seed_without_padding))

decode_decrypted_seed(decrypted_seed_without_padding) ==
    LET utf8_result == utf8_decode(decrypted_seed_without_padding) IN
    IF utf8_result.ok
    THEN LET normalized == RemoveSpaces(Upper(utf8_result.val)) IN
         IF re_match_base32(normalized)
         THEN Return(162, normalized)
         ELSE Return(164, utf8_result.val)
    ELSE LET ascii_string == ExtractAscii(decrypted_seed_without_padding)
             base32_match == re_search_base32(Upper(ascii_string))
         IN  IF base32_match.found
             THEN Return(176, base32_match.group)
             ELSE IF Len(ascii_string) >= MinAsciiLen
                  THEN Return(179, ascii_string)
                  ELSE Return(181, HexUpper(decrypted_seed_without_padding))

(***************************************************************************)
(* Unit specification of decode_decrypted_seed.  The argument is either    *)
(* any short byte string over SeedBytes, or two Base32 runs set in noise.  *)
(***************************************************************************)
MaxSeedLen == 3
MaxRunLen == 12

\* line feed, space, "2", "8", "=", "A", "a", two continuation bytes and the
\* lead bytes C3 and C5
SeedBytes == {10, 32, 50, 56, 61, 65, 97, 128, 191, 195, 197}

\* "MFXHI2BPMVZXI" and "JBSWY3DPEHPK3PXP"
RunBase1 == <<77, 70, 88, 72, 73, 50, 66, 80, 77, 86, 90, 88, 73>>
RunBase2 == <<74, 66, 83, 87, 89, 51, 68, 80, 69, 72, 80, 75, 51, 80, 88, 80>>

RunLens == {0} \cup ((MinRunLen - 1)..MaxRunLen)

\* nothing, a non-printable byte, "a", "!", and "A" before a non-printable byte
NoisePieces == {<<>>, <<128>>, <<97>>, <<33>>, <<65, 128>>}

RunInputs ==
    {n0 \o SubSeq(RunBase1, 1, k1) \o n1 \o SubSeq(RunBase2, 1, k2) \o n2 :
        n0 \in NoisePieces, n1 \in NoisePieces, n2 \in NoisePieces,
        k1 \in RunLens, k2 \in RunLens}

SeedInputs == SeqsUpTo(SeedBytes, MaxSeedLen) \cup RunInputs

InitSeed ==
    /\ BatchIdle
    /\ UriIdle
    /\ MainIdle
    /\ callee = "decode_decrypted_seed"
    /\ arg \in SeedInputs
    /\ ret = Pending

CallDecodeDecryptedSeed ==
    /\ callee = "decode_decrypted_seed"
    /\ ret = Pending
    /\ ret' = decode_decrypted_seed(arg)
    /\ UNCHANGED <<callee, arg>>
    /\ UNCHANGED batch_vars
    /\ UNCHANGED uri_vars
    /\ UNCHANGED main_vars

NextSeed == CallDecodeDecryptedSeed

SpecSeed == InitSeed /\ [][NextSeed]_vars

\* The maximal runs of at least MinRunLen characters of [A-Z2-7=] in s, as
\* pairs <<first, last>> of positions.
Base32Runs(s) ==
    LET firsts == {a \in DOMAIN s :
                      IsBase32Char(s[a]) /\ (a = 1 \/ ~IsBase32Char(s[a - 1]))}
        lasts == {b \in DOMAIN s :
                      IsBase32Char(s[b]) /\ (b = Len(s) \/ ~IsBase32Char(s[b + 1]))}
    IN  {r \in firsts \X lasts :
            /\ r[2] - r[1] + 1 >= MinRunLen
            /\ \A k \in r[1]..r[2] : IsBase32Char(s[k])}

RunText(s, r) == SubSeq(s, r[1], r[2])

\* The uppercased printable-ASCII extraction of the argument.
Extraction == Upper(ExtractAscii(arg))

\* C7: for valid UTF-8 input, with T the decoded text uppercased and without
\* spaces, decode_decrypted_seed returns T when every character of T is in
\* [A-Z2-7=] and the decoded text unchanged otherwise.  (An empty T is read
\* as not made of such characters, the reading that favours the code.)
C7_Utf8Normalisation ==
    (Returned("decode_decrypted_seed") /\ utf8_decode(arg).ok) =>
        LET text == utf8_decode(arg).val
            T == RemoveSpaces(Upper(text))
        IN  /\ ret.ok
            /\ ret.val = IF T # <<>> /\ \A k \in DOMAIN T : IsBase32Char(T[k])
                         THEN T ELSE text

\* C8: for input that is not valid UTF-8 and whose uppercased printable-ASCII
\* extraction has runs of at least 10 characters of [A-Z2-7=],
\* decode_decrypted_seed returns the longest of those runs.
C8_LongestRunReturned ==
    (Returned("decode_decrypted_seed") /\ ~utf8_decode(arg).ok
        /\ Base32Runs(Extraction) # {}) =>
        /\ ret.ok
        /\ \E r \in Base32Runs(Extraction) :
              /\ ret.val = RunText(Extraction, r)
              /\ \A q \in Base32Runs(Extraction) : q[2] - q[1] <= r[2] - r[1]

\* C8 as amended: under the same conditions decode_decrypted_seed returns the
\* first (leftmost) of those runs, whole.
C8_FirstRunReturned ==
    (Returned("decode_decrypted_seed") /\ ~utf8_decode(arg).ok
        /\ Base32Runs(Extraction) # {}) =>
        /\ ret.ok
        /\ \E r \in Base32Runs(Extraction) :
              /\ ret.val = RunText(Extraction, r)
              /\ \A q \in Base32Runs(Extraction) : r[1] <= q[1]

\* The case of C8 has happened: the extraction holds a run of 10 characters
\* followed by a run of 12, and the run of 10 was returned.
C8_Witness ==
    /\ Returned("decode_decrypted_seed")
    /\ ~utf8_decode(arg).ok
    /\ \E r \in Base32Runs(Extraction), q \in Base32Runs(Extraction) :
          /\ r[2] < q[1]
          /\ r[2] - r[1] < q[2] - q[1]
          /\ ret.val = RunText(Extraction, r)

\* C9: for input that is not valid UTF-8 and in which exactly one maximal
\* stretch R of bytes of [A-Z2-7=] has at least 10 bytes,
\* decode_decrypted_seed returns exactly R, whatever the other bytes are.
C9_EmbeddedRunReturned ==
    (Returned("decode_decrypted_seed") /\ ~utf8_decode(arg).ok
        /\ Cardinality(Base32Runs(arg)) = 1) =>
        /\ ret.ok
        /\ \A r \in Base32Runs(arg) : ret.val = RunText(arg, r)

\* A noise byte that cannot join a run: not printable, or printable and
\* neither a letter of either case nor one of "2".."7" and "=".
IsInertByte(b) ==
    \/ b < PrintableLo
    \/ b > PrintableHi
    \/ ~(IsBase32Char(b) \/ (b >= 97 /\ b <= 122))

\* C9 as amended: under the same conditions decode_decrypted_seed returns
\* exactly R provided every byte outside R is inert.
C9_EmbeddedRunAmongInertNoise ==
    (Returned("decode_decrypted_seed") /\ ~utf8_decode(arg).ok
        /\ Cardinality(Base32Runs(arg)) = 1) =>
        \A r \in Base32Runs(arg) :
            (\A k \in DOMAIN arg : (k < r[1] \/ k > r[2]) => IsInertByte(arg[k]))
            => (ret.ok /\ ret.val = RunText(arg, r))

\* The case of C9 has happened: "MFXHI2BPMVZ" between "!" and a
\* non-printable byte was returned exactly.
C9_Witness ==
    /\ Returned("decode_decrypted_seed")
    /\ arg = <<33>> \o SubSeq(RunBase1, 1, 11) \o <<128>>
    /\ ret.ok /\ ret.val = SubSeq(RunBase1, 1, 11)

\* The return statements of decode_decrypted_seed, one per rung.
SeedRungs == {162, 164, 176, 179, 181}

\* C10: for every byte string, the empty one included, decode_decrypted_seed
\* raises nothing and returns a string from exactly one of its five rungs,
\* the rung that the validity of the UTF-8 and the extraction select.
C10_SeedDecoderTotal ==
    Returned("decode_decrypted_seed") =>
        /\ ret.ok
        /\ ret.line \in SeedRungs
        /\ ret.val \in Seq(Nat)
        /\ (ret.line \in {162, 164}) <=> utf8_decode(arg).ok
        /\ (ret.line = 181) =>
               (Len(ExtractAscii(arg)) < MinAsciiLen /\ Len(ret.val) = 2 * Len(arg))

\* The case of C10 has happened: a lone continuation byte, which is neither
\* UTF-8 nor printable, came back as the hexadecimal text "80".
C10_Witness ==
    /\ Returned("decode_decrypted_seed")
    /\ arg = <<128>>
    /\ ret.ok /\ ret.line = 181 /\ ret.val = <<56, 48>>

(***************************************************************************)
(* decode_base64_seed (src/decrypt.py:33-48)                               *)
(***************************************************************************)
\* The value of a character of the Base64 alphabet, 64 for any other.
B64Value(c) ==
    IF c >= 65 /\ c <= 90 THEN c - 65
    ELSE IF c >= 97 /\ c <= 122 THEN c - 71
    ELSE IF c >= 48 /\ c <= 57 THEN c + 4
    ELSE IF c = 43 THEN 62
    ELSE IF c = 47 THEN 63
    ELSE 64

\* One character c taken by the decoder behind base64.b64decode(s) with its
\* default validate=False.  Characters outside the alphabet are skipped and
\* a complete "=" padding ends the decoding, whatever follows it.
a2b_step(c, st) ==
    IF st.done THEN st
    ELSE IF c = 61
         THEN IF st.quad_pos >= 2 /\ st.quad_pos + st.pads + 1 >= 4
              THEN [st EXCEPT !.done = TRUE]
              ELSE IF st.quad_pos >= 2 THEN [st EXCEPT !.pads = @ + 1] ELSE st
         ELSE LET v == B64Value(c) IN
              IF v >= 64 THEN st
              ELSE IF st.quad_pos = 0
                   THEN [st EXCEPT !.quad_pos = 1, !.leftchar = v, !.pads = 0]
              ELSE IF st.quad_pos = 1
                   THEN [st EXCEPT !.quad_pos = 2, !.leftchar = v % 16, !.pads = 0,
                                   !.out = Append(@, st.leftchar * 4 + v \div 16)]
              ELSE IF st.quad_pos = 2
                   THEN [st EXCEPT !.quad_pos = 3, !.leftchar = v % 4, !.pads = 0,
                                   !.out = Append(@, st.leftchar * 16 + v \div 4)]
              ELSE [st EXCEPT !.quad_pos = 0, !.leftchar = 0, !.pads = 0,
                              !.out = Append(@, st.leftchar * 64 + v)]

\* The characters s[lo..hi] taken one after the other.
RECURSIVE a2b_run(_, _, _, _)
a2b_run(s, lo, hi, st) ==
    IF lo > hi THEN st
    ELSE IF lo = hi THEN a2b_step(s[lo], st)
    ELSE LET mid == (lo + hi) \div 2
             half == a2b_run(s, lo, mid, st)
         IN  IF half.done THEN half ELSE a2b_run(s, mid + 1, hi, half)

\* binascii.a2b_base64: after the last character only an incomplete quad
\* is an error.
a2b_base64(s) ==
    LET st == a2b_run(s, 1, Len(s),
                      [quad_pos |-> 0, leftchar |-> 0, pads |-> 0,
                       out |-> <<>>, done |-> FALSE])
    IN  IF st.done \/ st.quad_pos = 0 THEN Return(43, st.out)
        ELSE IF st.quad_pos = 1
             THEN Raise(43, "binascii.Error",
                        Msg_InvalidBase64Head \o Decimal((Len(st.out) \div 3) * 4 + 1)
                            \o Msg_InvalidBase64Tail)
             ELSE Raise(43, "binascii.Error", Msg_IncorrectPadding)

\* base64.b64decode(s) for a str s: the text must be ASCII.
b64decode(s) ==
    IF \E k \in DOMAIN s : s[k] > 127
    THEN Raise(43, "ValueError", Msg_OnlyAscii)
    ELSE a2b_base64(s)

decode_base64_seed(encrypted_seed_b64) == b64decode(encrypted_seed_b64)

\* Well-formed Base64: quads of alphabet characters, the last quad ending
\* in at most two "=".
WellFormedB64(s) ==
    /\ Len(s) % 4 = 0
    /\ \A k \in DOMAIN s :
          \/ B64Value(s[k]) < 64
          \/ /\ s[k] = 61
             /\ k >= Len(s) - 1
             /\ \A j \in k..Len(s) : s[j] = 61

(***************************************************************************)
(* get_iv (src/decrypt.py:51-68)                                           *)
(***************************************************************************)
\* The value of a hexadecimal digit, 16 for any other character.
HexValue(c) ==
    IF c >= 48 /\ c <= 57 THEN c - 48
    ELSE IF c >= 97 /\ c <= 102 THEN c - 87
    ELSE IF c >= 65 /\ c <= 70 THEN c - 55
    ELSE 16

\* ASCII white space, which bytes.fromhex skips between two bytes.
IsSpace(c) == c = 32 \/ (c >= 9 /\ c <= 13)

RECURSIVE SkipSpaces(_, _)
SkipSpaces(s, p) == IF p <= Len(s) /\ IsSpace(s[p]) THEN SkipSpaces(s, p + 1) ELSE p

NonHexAt(pos) == Raise(60, "ValueError", Msg_NonHex \o Decimal(pos))

\* bytes.fromhex(s) from position p on (1-based); error positions are 0-based.
RECURSIVE fromhex_from(_, _, _)
fromhex_from(s, p, out) ==
    LET q == SkipSpaces(s, p) IN
    IF q > Len(s) THEN Return(60, out)
    ELSE IF HexValue(s[q]) >= 16 THEN NonHexAt(q - 1)
    ELSE IF q + 1 > Len(s) \/ HexValue(s[q + 1]) >= 16 THEN NonHexAt(q)
    ELSE fromhex_from(s, q + 2, Append(out, HexValue(s[q]) * 16 + HexValue(s[q + 1])))

FirstNonAscii(s) == CHOOSE k \in DOMAIN s : s[k] > 127 /\ \A j \in 1..(k - 1) : s[j] <= 127

bytes_fromhex(s) ==
    IF \E k \in DOMAIN s : s[k] > 127 THEN NonHexAt(FirstNonAscii(s) - 1)
    ELSE fromhex_from(s, 1, <<>>)

\* The length in bytes of an AES initialization vector (line 65).
IVLen == 16

\* A plausible slip: the length check refuses only an IV that is too short.
get_iv_at_least(unique_iv) ==
    LET iv == bytes_fromhex(unique_iv) IN
    IF ~iv.ok THEN iv
    ELSE IF Len(iv.val) < IVLen
         THEN Raise(66, "ValueError", Msg_InvalidIVLength \o Decimal(Len(iv.val)))
         ELSE Return(68, iv.val)

get_iv(unique_iv) ==
    LET iv == bytes_fromhex(unique_iv) IN
    IF ~iv.ok THEN iv
    ELSE IF Len(iv.val) # IVLen
         THEN Raise(66, "ValueError", Msg_InvalidIVLength \o Decimal(Len(iv.val)))
         ELSE Return(68, iv.val)

(***************************************************************************)
(* derive_key and decrypt_data (src/decrypt.py:71-116)                     *)
(*                                                                         *)
(* PBKDF2-HMAC-SHA1 and the AES block transform are library primitives.    *)
(* They are modelled by stand-ins that keep what the program relies on: a  *)
(* key of 32 bytes that is a function of (iterations, salt, passphrase),   *)
(* a keyed permutation of 16-byte blocks, and the chaining of CBC mode.    *)
(***************************************************************************)
\* The length in bytes of the derived key (line 83).
KeyLen == 32

RECURSIVE WeightedSum(_)
WeightedSum(s) ==
    IF s = <<>> THEN 0 ELSE (Len(s) * s[Len(s)] + WeightedSum(SubSeq(s, 1, Len(s) - 1))) % 256

\* str.encode(): the stand-in needs only the ASCII case.
encode(s) == s

derive_key(kdf_rounds, salt, passphrase) ==
    Return(94, [j \in 1..KeyLen |->
                   (kdf_rounds * j + WeightedSum(encode(salt)) * (j + 1)
                       + WeightedSum(encode(passphrase)) * (2 * j + 1)) % 256])

\* Bitwise exclusive or of two bytes.
RECURSIVE Xor(_, _)
Xor(a, b) ==
    IF a = 0 THEN b
    ELSE IF b = 0 THEN a
    ELSE 2 * Xor(a \div 2, b \div 2) + ((a + b) % 2)

XorBlock(x, y) == [j \in 1..BlockSize |-> Xor(x[j], y[j])]

\* The stand-in for the AES block transform and its inverse.
EncryptBlock(key, block) ==
    [j \in 1..BlockSize |-> (block[j] + key[j] + key[j + BlockSize]) % 256]
DecryptBlock(key, block) ==
    [j \in 1..BlockSize |-> (block[j] + 512 - key[j] - key[j + BlockSize]) % 256]

\* CBC decryption of whole blocks: P[n] = D(C[n]) xor C[n-1], C[0] = iv.
RECURSIVE cbc_decrypt(_, _, _)
cbc_decrypt(data, key, prev) ==
    IF data = <<>> THEN <<>>
    ELSE LET block == SubSeq(data, 1, BlockSize) IN
         XorBlock(DecryptBlock(key, block), prev)
             \o cbc_decrypt(SubSeq(data, BlockSize + 1, Len(data)), key, block)

\* A plausible slip: the cipher is set up without the IV of the token.
decrypt_data_iv_ignored(encrypted_seed, key, iv) ==
    IF Len(encrypted_seed) % BlockSize # 0
    THEN Raise(111, "ValueError", Msg_NotBlockMultiple)
    ELSE Return(116, cbc_decrypt(encrypted_seed, key, Fill(0, BlockSize)))

\* decryptor.update(encrypted_seed) + decryptor.finalize(): finalize raises
\* when the data do not fill whole blocks.
decrypt_data(encrypted_seed, key, iv) ==
    IF Len(encrypted_seed) % BlockSize # 0
    THEN Raise(111, "ValueError", Msg_NotBlockMultiple)
    ELSE Return(116, cbc_decrypt(encrypted_seed, key, iv))

(***************************************************************************)
(* decrypt_token (src/decrypt.py:184-217)                                  *)
(***************************************************************************)
\* The body of the try statement (lines 206-211): the six stages in order,
\* the first exception ending it.
try_body(kdf_rounds, encrypted_seed_b64, salt, passphrase, unique_iv) ==
    LET encrypted_seed == decode_base64_seed(encrypted_seed_b64) IN
    IF ~encrypted_seed.ok THEN encrypted_seed ELSE
    LET iv == get_iv(unique_iv) IN
    IF ~iv.ok THEN iv ELSE
    LET key == derive_key(kdf_rounds, salt, passphrase) IN
    IF ~key.ok THEN key ELSE
    LET decrypted_data == decrypt_data(encrypted_seed.val, key.val, iv.val) IN
    IF ~decrypted_data.ok THEN decrypted_data ELSE
    LET decrypted_seed_without_padding == remove_padding(decrypted_data.val) IN
    IF ~decrypted_seed_without_padding.ok THEN decrypted_seed_without_padding ELSE
    LET decoded == decode_decrypted_seed(decrypted_seed_without_padding.val) IN
    IF ~decoded.ok THEN decoded ELSE Return(211, decoded.val)

\* A plausible slip: no except clause, the exception of a stage propagates.
decrypt_token_uncaught(kdf_rounds, encrypted_seed_b64, salt, passphrase, unique_iv) ==
    try_body(kdf_rounds, encrypted_seed_b64, salt, passphrase, unique_iv)

\* The except clause (lines 213-217) turns any exception into a failure text.
decrypt_token(kdf_rounds, encrypted_seed_b64, salt, passphrase, unique_iv) ==
    LET r == try_body(kdf_rounds, encrypted_seed_b64, salt, passphrase, unique_iv) IN
    IF r.ok THEN r ELSE Return(217, Msg_DecryptionFailed \o r.msg)

(***************************************************************************)
(* The backups given to the program.  A backup is produced by the          *)
(* application that encrypted it: padding, CBC encryption, Base64 text.    *)
(***************************************************************************)
B64Char(v) ==
    IF v < 26 THEN 65 + v
    ELSE IF v < 52 THEN 71 + v
    ELSE IF v < 62 THEN v - 4
    ELSE IF v = 62 THEN 43 ELSE 47

RECURSIVE B64Encode(_)
B64Encode(d) ==
    IF d = <<>> THEN <<>>
    ELSE IF Len(d) = 1
         THEN <<B64Char(d[1] \div 4), B64Char((d[1] % 4) * 16), 61, 61>>
    ELSE IF Len(d) = 2
         THEN <<B64Char(d[1] \div 4), B64Char((d[1] % 4) * 16 + d[2] \div 16),
                B64Char((d[2] % 16) * 4), 61>>
    ELSE <<B64Char(d[1] \div 4), B64Char((d[1] % 4) * 16 + d[2] \div 16),
           B64Char((d[2] % 16) * 4 + d[3] \div 64), B64Char(d[3] % 64)>>
             \o B64Encode(SubSeq(d, 4, Len(d)))

\* Standard block padding: n bytes of value n, 1 <= n <= 16.
Pad(d) ==
    LET n == BlockSize - (Len(d) % BlockSize) IN d \o Fill(n, n)

\* CBC encryption of whole blocks: C[n] = E(P[n] xor C[n-1]), C[0] = iv.
RECURSIVE cbc_encrypt(_, _, _)
cbc_encrypt(data, key, prev) ==
    IF data = <<>> THEN <<>>
    ELSE LET block == EncryptBlock(key, XorBlock(SubSeq(data, 1, BlockSize), prev)) IN
         block \o cbc_encrypt(SubSeq(data, BlockSize + 1, Len(data)), key, block)

\* The names of the fields of a token record.
SecretFields == {"key_derivation_iterations", "encrypted_seed", "salt"}
PassthroughFields == {"account_type", "name", "issuer", "digits", "logo", "unique_id"}
AllFields == SecretFields \cup PassthroughFields \cup {"unique_iv"}

\* The default of token.get("unique_iv", ...) (line 234): 32 times "0".
DefaultIV == Fill(48, 2 * IVLen)

\* "hunter2", the passphrase of the backup, and "hunter3", a wrong one
Passphrase == <<104, 117, 110, 116, 101, 114, 50>>
WrongPassphrase == <<104, 117, 110, 116, 101, 114, 51>>
\* "NaCl"
Salt == <<78, 97, 67, 108>>
Iterations == 1000
\* "000102030405060708090a0b0c0d0e0f"
HexIV ==
    <<48, 48, 48, 49, 48, 50,
      48, 51, 48, 52, 48, 53, 48, 54, 48, 55, 48, 56,
      48, 57, 48, 97, 48, 98, 48, 99, 48, 100, 48, 101, 48, 102>>

\* "JBSWY3DPEHPK3PXP", "mfxhi2bp mvzxi" and fifteen characters before a NUL
Secret1 == RunBase2
Secret2 == <<109, 102, 120, 104, 105, 50, 98, 112, 32, 109, 118, 122, 120, 105>>
ZeroEnded == SubSeq(RunBase2, 1, 15) \o <<0>>

\* The Base64 text of the ciphertext of already padded data.
Sealed(padded, hexiv) ==
    B64Encode(cbc_encrypt(padded,
                          derive_key(Iterations, Salt, Passphrase).val,
                          bytes_fromhex(hexiv).val))

\* Display metadata of two accounts.
Meta1 ==
    [account_type |-> <<116, 111, 116, 112>>,
     name |-> <<71, 105, 116, 72, 117, 98, 58, 97, 108>>,
     issuer |-> <<71, 105, 116, 72, 117, 98>>,
     digits |-> 6, logo |-> <<103, 104>>, unique_id |-> <<49>>]
Meta2 ==
    [account_type |-> <<97, 117, 116, 104, 121>>,
     name |-> <<97, 119, 115, 95, 98, 111, 98>>,
     issuer |-> <<>>,
     digits |-> 7, logo |-> <<97, 119, 115>>, unique_id |-> <<50>>]

Token(meta, fields, encrypted_seed, unique_iv) ==
    [has |-> fields,
     key_derivation_iterations |-> Iterations,
     encrypted_seed |-> encrypted_seed,
     salt |-> Salt,
     unique_iv |-> unique_iv,
     account_type |-> meta.account_type, name |-> meta.name,
     issuer |-> meta.issuer, digits |-> meta.digits,
     logo |-> meta.logo, unique_id |-> meta.unique_id]

\* 32 times "0"
ZeroHexIV == Fill(48, 32)

Good1 == Sealed(Pad(Secret1), HexIV)
Good2 == Sealed(Pad(Secret2), DefaultIV)

\* Records with every field; the seeds are sound, or damaged in one way.
WellFormedTokens ==
    { Token(Meta1, AllFields, Good1, HexIV),
      Token(Meta2, AllFields \ {"unique_iv"}, Good2, <<>>),
      \* the same seed with the all-zero IV written out, for another account
      Token(Meta1, AllFields, Good2, ZeroHexIV),
      \* "!" put into sound Base64, and sound Base64 short of its last character
      Token(Meta2, AllFields, SubSeq(Good1, 1, 7) \o <<33>> \o SubSeq(Good1, 8, Len(Good1)), HexIV),
      Token(Meta1, AllFields, SubSeq(Good1, 1, Len(Good1) - 1), HexIV),
      \* an IV of 15 bytes
      Token(Meta1, AllFields, Good1, SubSeq(HexIV, 1, 30)),
      \* a plaintext block that ends in a zero byte
      Token(Meta2, AllFields, Sealed(ZeroEnded, HexIV), HexIV),
      \* a ciphertext of 15 bytes
      Token(Meta1, AllFields, B64Encode(SubSeq(RunBase2, 1, 15)), HexIV) }

\* Records that lack a required field.
IncompleteTokens ==
    { Token(Meta1, AllFields \ {"salt"}, Good1, HexIV),
      Token(Meta2, AllFields \ {"logo"}, Good1, HexIV) }

TokenSet == WellFormedTokens \cup IncompleteTokens

MaxTokens == 2

(***************************************************************************)
(* process_authenticator_data (src/decrypt.py:279-315) with the loop of    *)
(* decrypt_all_tokens (src/decrypt.py:220-254)                             *)
(***************************************************************************)
LoadFailures == {"absent", "malformed", "no_key"}

InputFiles ==
    {[state |-> "ok", tokens |-> ts] : ts \in SeqsUpTo(TokenSet, MaxTokens)}
        \cup {[state |-> st, tokens |-> <<>>] : st \in LoadFailures}

Init ==
    /\ pc = "load"
    /\ input_file \in InputFiles
    /\ tokens = <<>>
    /\ backup_password \in {Passphrase, WrongPassphrase}
    /\ i = 0
    /\ decrypted_tokens = <<>>
    /\ decrypt_calls = <<>>
    /\ output_file = <<>>
    /\ callee = "none"
    /\ arg = <<>>
    /\ ret = Pending
    /\ UriIdle
    /\ MainIdle

\* A plausible slip: an except clause prints the error and does not return.
LoadFails_falls_through ==
    /\ pc = "load"
    /\ input_file.state \in LoadFailures
    /\ pc' = "decrypt"
    /\ UNCHANGED <<input_file, tokens, backup_password, i, decrypted_tokens,
                   decrypt_calls, output_file>>
    /\ UNCHANGED unit_vars
    /\ UNCHANGED uri_vars
    /\ UNCHANGED main_vars

\* load_authenticator_data raises (lines 24-28), the except clauses of
\* lines 293-304 print the error and return.
LoadFails ==
    /\ pc = "load"
    /\ input_file.state \in LoadFailures
    /\ pc' = "load_failed"
    /\ UNCHANGED <<input_file, tokens, backup_password, i, decrypted_tokens,
                   decrypt_calls, output_file>>
    /\ UNCHANGED unit_vars
    /\ UNCHANGED uri_vars
    /\ UNCHANGED main_vars

\* load_authenticator_data returns the document; decrypt_all_tokens starts
\* with an empty list (line 229).
Load ==
    /\ pc = "load"
    /\ input_file.state = "ok"
    /\ tokens' = input_file.tokens
    /\ decrypted_tokens' = <<>>
    /\ i' = 0
    /\ pc' = "decrypt"
    /\ UNCHANGED <<input_file, backup_password, decrypt_calls, output_file>>
    /\ UNCHANGED unit_vars
    /\ UNCHANGED uri_vars
    /\ UNCHANGED main_vars

\* A plausible slip: the default of the missing field is the empty string.
unique_iv_of_no_default(token) ==
    IF "unique_iv" \in token.has THEN token.unique_iv ELSE <<>>

\* token.get("unique_iv", "000...0") (line 234)
unique_iv_of(token) ==
    IF "unique_iv" \in token.has THEN token.unique_iv ELSE DefaultIV

\* A plausible slip: unique_iv is assigned only when the field is present,
\* so a record without it inherits the IV of the record before it.
decrypted_seed_of_carried_iv(token, passphrase) ==
    decrypt_token(token.key_derivation_iterations, token.encrypted_seed,
                  token.salt, passphrase,
                  IF "unique_iv" \in token.has \/ i = 0
                  THEN unique_iv_of(token)
                  ELSE unique_iv_of(tokens[i]))

\* The call of lines 236-242.
decrypted_seed_of(token, passphrase) ==
    decrypt_token(token.key_derivation_iterations, token.encrypted_seed,
                  token.salt, passphrase, unique_iv_of(token))

\* A plausible slip: name and issuer change places in the output record.
decrypted_record_swapped(token, decrypted_seed) ==
    [account_type |-> token.account_type,
     name |-> token.issuer,
     issuer |-> token.name,
     decrypted_seed |-> decrypted_seed,
     digits |-> token.digits,
     logo |-> token.logo,
     unique_id |-> token.unique_id]

\* The record appended in lines 244-252.
decrypted_record(token, decrypted_seed) ==
    [account_type |-> token.account_type,
     name |-> token.name,
     issuer |-> token.issuer,
     decrypted_seed |-> decrypted_seed,
     digits |-> token.digits,
     logo |-> token.logo,
     unique_id |-> token.unique_id]

\* One iteration of the loop that appends a record (lines 231-252).
DecryptNextToken ==
    /\ pc = "decrypt"
    /\ i < Len(tokens)
    /\ LET token == tokens[i + 1]
           decrypted_seed == decrypted_seed_of(token, backup_password)
       IN  /\ SecretFields \subseteq token.has
           /\ decrypted_seed.ok
           /\ PassthroughFields \subseteq token.has
           /\ decrypted_tokens' =
                  Append(decrypted_tokens, decrypted_record(token, decrypted_seed.val))
    /\ decrypt_calls' = Append(decrypt_calls, i)
    /\ i' = i + 1
    /\ UNCHANGED <<pc, input_file, tokens, backup_password, output_file>>
    /\ UNCHANGED unit_vars
    /\ UNCHANGED uri_vars
    /\ UNCHANGED main_vars

\* One iteration of the loop that raises: a KeyError of token[...] before
\* the call (lines 237-239) or after it (lines 245-251), or an exception
\* out of decrypt_token.  process_authenticator_data prints it and returns
\* (lines 308-310).
DecryptRaises ==
    /\ pc = "decrypt"
    /\ i < Len(tokens)
    /\ LET token == tokens[i + 1] IN
       IF ~(SecretFields \subseteq token.has)
       THEN UNCHANGED decrypt_calls
       ELSE /\ \/ ~decrypted_seed_of(token, backup_password).ok
               \/ ~(PassthroughFields \subseteq token.has)
            /\ decrypt_calls' = Append(decrypt_calls, i)
    /\ pc' = "decrypt_failed"
    /\ UNCHANGED <<input_file, tokens, backup_password, i, decrypted_tokens,
                   output_file>>
    /\ UNCHANGED unit_vars
    /\ UNCHANGED uri_vars
    /\ UNCHANGED main_vars

\* The loop is over, decrypt_all_tokens returns the list (line 254).
ReturnDecryptedTokens ==
    /\ pc = "decrypt"
    /\ i = Len(tokens)
    /\ pc' = "write"
    /\ UNCHANGED <<input_file, tokens, backup_password, i, decrypted_tokens,
                   decrypt_calls, output_file>>
    /\ UNCHANGED unit_vars
    /\ UNCHANGED uri_vars
    /\ UNCHANGED main_vars

\* write_decrypted_tokens (lines 257-276)
WriteDecryptedTokens ==
    /\ pc = "write"
    /\ output_file' = Append(output_file,
           [message |-> "success",
            decrypted_authenticator_tokens |-> decrypted_tokens,
            success |-> TRUE])
    /\ pc' = "done"
    /\ UNCHANGED <<input_file, tokens, backup_password, i, decrypted_tokens,
                   decrypt_calls>>
    /\ UNCHANGED unit_vars
    /\ UNCHANGED uri_vars
    /\ UNCHANGED main_vars

\* open(output_file, "w") raises, the error is printed (lines 314-315).
WriteFails ==
    /\ pc = "write"
    /\ pc' = "write_failed"
    /\ UNCHANGED <<input_file, tokens, backup_password, i, decrypted_tokens,
                   decrypt_calls, output_file>>
    /\ UNCHANGED unit_vars
    /\ UNCHANGED uri_vars
    /\ UNCHANGED main_vars

Next ==
    \/ LoadFails
    \/ Load
    \/ DecryptNextToken
    \/ DecryptRaises
    \/ ReturnDecryptedTokens
    \/ WriteDecryptedTokens
    \/ WriteFails

Spec == Init /\ [][Next]_vars

(***************************************************************************)
(* Properties of the batch                                                 *)
(***************************************************************************)
\* Every required field of the record is present (unique_iv is optional).
AllPresent(token) == (SecretFields \cup PassthroughFields) \subseteq token.has

WellFormedBatch ==
    /\ input_file.state = "ok"
    /\ \A k \in DOMAIN input_file.tokens : AllPresent(input_file.tokens[k])

LoopOver == pc \in {"write", "done", "write_failed"}

\* What the six stages do with a token on its own: a text, or an exception.
Stages(token) ==
    try_body(token.key_derivation_iterations, token.encrypted_seed, token.salt,
             backup_password, unique_iv_of(token))

HasPrefix(s, prefix) == Len(s) >= Len(prefix) /\ SubSeq(s, 1, Len(prefix)) = prefix

\* C1: in a batch of N records with all fields, the run never ends in an
\* exception of a stage; a token for which a stage raises gets the text
\* "Decryption failed: " followed by the cause, every token gets the text its
\* own fields determine whatever the other tokens are, and N records result.
C1_FailureIsolation ==
    WellFormedBatch =>
        /\ pc # "decrypt_failed"
        /\ LoopOver => Len(decrypted_tokens) = Len(input_file.tokens)
        /\ \A j \in DOMAIN decrypted_tokens :
              LET r == Stages(input_file.tokens[j]) IN
              decrypted_tokens[j].decrypted_seed =
                  IF r.ok THEN r.val ELSE Msg_DecryptionFailed \o r.msg

\* The case of C1 has happened: the first of two tokens had its Base64 cut
\* short and holds the failure text, the second holds its secret, and the
\* batch was written.
C1_Witness ==
    /\ pc = "done"
    /\ backup_password = Passphrase
    /\ Len(decrypted_tokens) = 2
    /\ ~Stages(tokens[1]).ok
    /\ decrypted_tokens[1].decrypted_seed = Msg_DecryptionFailed \o Msg_IncorrectPadding
    /\ decrypted_tokens[2].decrypted_seed = Secret1

\* C2: for a list of N records with all fields, the i-th record of the
\* result carries the six display fields of the i-th token and, besides
\* them, only decrypted_seed; the result has N records and the input records
\* are not modified.
C2_OrderAndPassthrough ==
    WellFormedBatch =>
        /\ pc # "load" => tokens = input_file.tokens
        /\ LoopOver => Len(decrypted_tokens) = Len(input_file.tokens)
        /\ \A j \in DOMAIN decrypted_tokens :
              /\ DOMAIN decrypted_tokens[j] = PassthroughFields \cup {"decrypted_seed"}
              /\ \A f \in PassthroughFields :
                    decrypted_tokens[j][f] = input_file.tokens[j][f]

\* The case of C2 has happened: two tokens of different accounts came out
\* in their order.
C2_Witness ==
    /\ pc = "done"
    /\ Len(decrypted_tokens) = 2
    /\ tokens[1].name = Meta1.name /\ tokens[2].name = Meta2.name
    /\ decrypted_tokens[1].name = Meta1.name
    /\ decrypted_tokens[2].name = Meta2.name
    /\ decrypted_tokens[1].issuer = Meta1.issuer

\* C6: a token whose encrypted_seed is not well-formed Base64 gets a
\* "Decryption failed: ..." text, never a recovered secret.
C6_MalformedBase64Fails ==
    \A j \in DOMAIN decrypted_tokens :
        ~WellFormedB64(tokens[j].encrypted_seed)
            => HasPrefix(decrypted_tokens[j].decrypted_seed, Msg_DecryptionFailed)

(***************************************************************************)
(* Unit specification of get_iv, run beside the batch: the argument is a   *)
(* run of one hexadecimal digit followed by a short tail, or the IV of the *)
(* backup written in one of the ways bytes.fromhex accepts.                *)
(***************************************************************************)
MaxIVChars == 36

\* "0", "f" and "A"
IVHexChars == {48, 102, 65}

\* nothing, a space, "g", "0 1" and "12"
IVTails == {<<>>, <<32>>, <<103>>, <<48, 32, 49>>, <<49, 50>>}

\* The IV of the backup with a space after each byte.
SpacedHexIV == Concat([k \in 1..IVLen |-> SubSeq(HexIV, 2 * k - 1, 2 * k) \o <<32>>])

IVInputs ==
    {Fill(c, k) \o t : c \in IVHexChars, k \in 0..MaxIVChars, t \in IVTails}
        \cup {HexIV, SpacedHexIV, SubSeq(HexIV, 1, 30), HexIV \o <<49, 48>>}

InitGetIV ==
    /\ BatchIdle
    /\ UriIdle
    /\ MainIdle
    /\ callee = "get_iv"
    /\ arg \in IVInputs
    /\ ret = Pending

CallGetIV ==
    /\ callee = "get_iv"
    /\ ret = Pending
    /\ ret' = get_iv(arg)
    /\ UNCHANGED <<callee, arg>>
    /\ UNCHANGED batch_vars
    /\ UNCHANGED uri_vars
    /\ UNCHANGED main_vars

InitIV == InitGetIV \/ Init

NextIV == CallGetIV \/ Next

SpecIV == InitIV /\ [][NextIV]_vars

\* A text made of hexadecimal digits only.
IsHexString(s) == \A k \in DOMAIN s : HexValue(s[k]) < 16

\* The bytes that a text of hexadecimal digits writes, pair by pair.
HexBytes(s) ==
    [k \in 1..(Len(s) \div 2) |-> HexValue(s[2 * k - 1]) * 16 + HexValue(s[2 * k])]

\* C11: get_iv returns the decoded bytes exactly when the hex string decodes
\* to 16 bytes (so for every string of 32 hex characters) and fails with the
\* invalid-IV error when the decoded length differs from 16 (so for 30 and
\* 34 hex characters); in a batch an invalid IV makes only that token's
\* decrypted_seed an error string and the batch is not aborted.
C11_IVValidation ==
    /\ Returned("get_iv") =>
           LET iv == bytes_fromhex(arg) IN
           /\ ret.ok <=> (iv.ok /\ Len(iv.val) = 16)
           /\ ret.ok => ret.val = iv.val
           /\ (iv.ok /\ Len(iv.val) # 16) =>
                  /\ ret.exc = "ValueError"
                  /\ ret.msg = Msg_InvalidIVLength \o Decimal(Len(iv.val))
           /\ (IsHexString(arg) /\ Len(arg) = 32) =>
                  (ret.ok /\ ret.val = HexBytes(arg))
           /\ (IsHexString(arg) /\ Len(arg) \in {30, 34}) =>
                  (~ret.ok /\ HasPrefix(ret.msg, Msg_InvalidIVLength))
    /\ WellFormedBatch =>
           /\ pc # "decrypt_failed"
           /\ LoopOver => Len(decrypted_tokens) = Len(input_file.tokens)
           /\ \A j \in DOMAIN decrypted_tokens :
                  LET t == input_file.tokens[j] IN
                  IF /\ "unique_iv" \in t.has
                     /\ IsHexString(t.unique_iv)
                     /\ Len(t.unique_iv) % 2 = 0
                     /\ Len(t.unique_iv) # 32
                  THEN decode_base64_seed(t.encrypted_seed).ok =>
                           decrypted_tokens[j].decrypted_seed =
                               Msg_DecryptionFailed \o Msg_InvalidIVLength
                                   \o Decimal(Len(t.unique_iv) \div 2)
                  ELSE LET r == Stages(t) IN
                       decrypted_tokens[j].decrypted_seed =
                           IF r.ok THEN r.val ELSE Msg_DecryptionFailed \o r.msg

\* The case of C11 has happened: of two tokens the first has an IV of 15
\* bytes and holds "Decryption failed: Invalid IV length: 15", the second
\* holds its secret, and the batch was written.
C11_Witness ==
    /\ pc = "done"
    /\ backup_password = Passphrase
    /\ Len(decrypted_tokens) = 2
    /\ tokens[1].unique_iv = SubSeq(HexIV, 1, 30)
    /\ decrypted_tokens[1].decrypted_seed =
           Msg_DecryptionFailed \o Msg_InvalidIVLength \o <<49, 53>>
    /\ decrypted_tokens[2].decrypted_seed = Secret1

\* C12: a record without the unique_iv field is decrypted with the IV of 16
\* zero bytes and gets the decrypted_seed that the same record with unique_iv
\* set to 32 "0" characters gets; the absence of the field alone produces no
\* error text.
C12_MissingIVDefault ==
    \A j \in DOMAIN decrypted_tokens :
        LET t == input_file.tokens[j] IN
        "unique_iv" \notin t.has =>
            LET explicit == decrypt_token(t.key_derivation_iterations, t.encrypted_seed,
                                          t.salt, backup_password, ZeroHexIV)
            IN  /\ get_iv(ZeroHexIV).val = Fill(0, 16)
                /\ decrypted_tokens[j].decrypted_seed = explicit.val
                /\ ~HasPrefix(explicit.val, Msg_DecryptionFailed)
                       => ~HasPrefix(decrypted_tokens[j].decrypted_seed, Msg_DecryptionFailed)

\* The case of C12 has happened: a record without unique_iv and a record
\* with the same seed and 32 "0" characters both hold "MFXHI2BPMVZXI".
C12_Witness ==
    /\ pc = "done"
    /\ backup_password = Passphrase
    /\ Len(decrypted_tokens) = 2
    /\ "unique_iv" \notin tokens[1].has
    /\ "unique_iv" \in tokens[2].has /\ tokens[2].unique_iv = ZeroHexIV
    /\ tokens[2].encrypted_seed = tokens[1].encrypted_seed
    /\ decrypted_tokens[1].decrypted_seed = RunBase1
    /\ decrypted_tokens[2].decrypted_seed = RunBase1

\* C13: if loading fails (missing file, malformed JSON, missing
\* "authenticator_tokens" key) no token is decrypted and the output file is
\* never written; in every run the output file is written at most once, and
\* only after loading succeeded and every token of the batch was processed.
C13_LoadFailureFatalWriteOnce ==
    /\ input_file.state \in LoadFailures =>
           /\ pc \in {"load", "load_failed"}
           /\ decrypt_calls = <<>>
           /\ decrypted_tokens = <<>>
           /\ output_file = <<>>
    /\ Len(output_file) <= 1
    /\ output_file # <<>> =>
           /\ pc = "done"
           /\ input_file.state = "ok"
           /\ decrypt_calls = [k \in 1..Len(input_file.tokens) |-> k - 1]
           /\ Len(decrypted_tokens) = Len(input_file.tokens)
           /\ output_file[1].decrypted_authenticator_tokens = decrypted_tokens
    /\ pc \in {"load", "decrypt", "write", "load_failed", "decrypt_failed", "write_failed"}
           => output_file = <<>>

\* The case of C13 has happened: the input was malformed JSON, the run
\* ended, no token was decrypted and nothing was written.
C13_Witness ==
    /\ pc = "load_failed"
    /\ input_file.state = "malformed"
    /\ decrypt_calls = <<>>
    /\ output_file = <<>>

\* Some record of the batch lacks a required field.
IncompleteBatch ==
    /\ input_file.state = "ok"
    /\ \E k \in DOMAIN input_file.tokens : ~AllPresent(input_file.tokens[k])

\* C14: if any record of the batch, at any index, lacks a required field
\* (encrypted_seed, salt, key_derivation_iterations or a display field such
\* as logo), the run aborts before any token of the batch has been decrypted.
C14_MissingKeyAbortsFirst ==
    IncompleteBatch =>
        /\ decrypt_calls = <<>>
        /\ decrypted_tokens = <<>>
        /\ pc \in {"load", "decrypt", "decrypt_failed"}

\* The values of a record that the claim lets its decrypted_seed depend on,
\* the passphrase apart.
FiveValues(t) ==
    <<t.key_derivation_iterations, t.encrypted_seed, t.salt,
      IF "unique_iv" \in t.has THEN t.unique_iv ELSE ZeroHexIV>>

\* The text that decrypt_token gives for these values on their own.
SeedOf(v, passphrase) == decrypt_token(v[1], v[2], v[3], passphrase, v[4]).val

\* C15: the decrypted_seed of a token is a function of its iterations,
\* encrypted_seed, salt, unique_iv and the passphrase only: it is what
\* decrypt_token gives for these values alone, whatever the position of the
\* token, the other tokens and the tokens processed before it, and two
\* records with these values equal hold the same text.
C15_TokenIndependence ==
    /\ \A j \in DOMAIN decrypted_tokens :
           decrypted_tokens[j].decrypted_seed =
               SeedOf(FiveValues(input_file.tokens[j]), backup_password)
    /\ \A j \in DOMAIN decrypted_tokens, k \in DOMAIN decrypted_tokens :
           FiveValues(input_file.tokens[j]) = FiveValues(input_file.tokens[k])
               => decrypted_tokens[j].decrypted_seed = decrypted_tokens[k].decrypted_seed

\* The case of C15 has happened: after a token with its own IV, a token of
\* another account that relies on the default IV holds the text of its own
\* values, "MFXHI2BPMVZXI".
C15_Witness ==
    /\ Len(decrypted_tokens) = 2
    /\ backup_password = Passphrase
    /\ tokens[1].unique_iv = HexIV /\ "unique_iv" \in tokens[1].has
    /\ "unique_iv" \notin tokens[2].has
    /\ tokens[1].name # tokens[2].name
    /\ decrypted_tokens[1].decrypted_seed = Secret1
    /\ decrypted_tokens[2].decrypted_seed = RunBase1

(***************************************************************************)
(* Unit specification of decrypt_token.  The arguments are those of a seed *)
(* sealed by the backup application under some passphrase, salt, iteration *)
(* count and IV, or of such a seed whose ciphertext was cut short.         *)
(***************************************************************************)
MaxSecretLen == 2
MaxCipherLen == 33

\* "A", "Z", "2", "7" and "="
SecretChars == {65, 90, 50, 55, 61}

\* "JBSWY3DPEHPK3PXP" twice: 32 characters
LongSecret == RunBase2 \o RunBase2

RoundSecrets ==
    (SeqsUpTo(SecretChars, MaxSecretLen) \ {<<>>})
        \cup {SubSeq(LongSecret, 1, n) : n \in {15, 16, 17, 31, 32}}

\* "K"
OtherSalt == <<75>>

\* The Base64 text of the ciphertext of already padded data under the key
\* derived from the given parameters.
SealedWith(padded, kdf_rounds, salt, passphrase, hexiv) ==
    B64Encode(cbc_encrypt(padded,
                          derive_key(kdf_rounds, salt, passphrase).val,
                          bytes_fromhex(hexiv).val))

\* The arguments of a call, with the secret that was sealed (empty when the
\* ciphertext is not that of a known secret).
TokenArgs(secret, encrypted_seed_b64, kdf_rounds, salt, passphrase, unique_iv) ==
    [secret |-> secret, kdf_rounds |-> kdf_rounds,
     encrypted_seed_b64 |-> encrypted_seed_b64, salt |-> salt,
     passphrase |-> passphrase, unique_iv |-> unique_iv]

SealedInputs ==
    {TokenArgs(s, SealedWith(Pad(s), n, salt, pw, iv), n, salt, pw, iv) :
        s \in RoundSecrets, n \in {1, Iterations}, salt \in {Salt, OtherSalt},
        pw \in {Passphrase, WrongPassphrase}, iv \in {HexIV, ZeroHexIV}}

\* The ciphertext of the padded LongSecret, 48 bytes.
LongCipher(hexiv) ==
    cbc_encrypt(Pad(LongSecret), derive_key(Iterations, Salt, Passphrase).val,
                bytes_fromhex(hexiv).val)

CutInputs ==
    {TokenArgs(<<>>, B64Encode(SubSeq(LongCipher(iv), 1, n)), Iterations, Salt,
               Passphrase, iv) :
        n \in 0..MaxCipherLen, iv \in {HexIV, ZeroHexIV}}

TokenInputs == SealedInputs \cup CutInputs

InitToken ==
    /\ BatchIdle
    /\ UriIdle
    /\ MainIdle
    /\ callee = "decrypt_token"
    /\ arg \in TokenInputs
    /\ ret = Pending

CallDecryptToken ==
    /\ callee = "decrypt_token"
    /\ ret = Pending
    /\ ret' = decrypt_token(arg.kdf_rounds, arg.encrypted_seed_b64, arg.salt,
                            arg.passphrase, arg.unique_iv)
    /\ UNCHANGED <<callee, arg>>
    /\ UNCHANGED batch_vars
    /\ UNCHANGED uri_vars
    /\ UNCHANGED main_vars

NextToken == CallDecryptToken

SpecToken == InitToken /\ [][NextToken]_vars

\* C16: for every non-empty secret S of characters [A-Z2-7=], every
\* passphrase, salt, positive iteration count and 16-byte IV, decrypt_token
\* on the Base64 of the CBC encryption of the padded bytes of S, under the
\* key derived from those parameters, returns exactly S.
C16_RoundTrip ==
    (/\ Returned("decrypt_token")
     /\ arg.secret # <<>>
     /\ \A k \in DOMAIN arg.secret : IsBase32Char(arg.secret[k])
     /\ arg.kdf_rounds > 0
     /\ IsHexString(arg.unique_iv) /\ Len(arg.unique_iv) = 32
     /\ arg.encrypted_seed_b64 =
            SealedWith(Pad(arg.secret), arg.kdf_rounds, arg.salt, arg.passphrase,
                       arg.unique_iv))
    => /\ ret.ok
       /\ ret.line = 211
       /\ ret.val = arg.secret

\* The case of C16 has happened: a secret of 32 characters, whose padding is
\* a whole block, sealed with one iteration, the other salt and the IV of
\* the backup, came back exactly.
C16_Witness ==
    /\ Returned("decrypt_token")
    /\ arg.secret = LongSecret
    /\ arg.kdf_rounds = 1 /\ arg.salt = OtherSalt /\ arg.unique_iv = HexIV
    /\ Len(decode_base64_seed(arg.encrypted_seed_b64).val) = 48
    /\ ret.val = LongSecret

\* C18: a token whose Base64-decoded ciphertext has a length that is not a
\* positive multiple of 16 (0 included) gets a "Decryption failed: ..." text,
\* never a recovered secret; when the length is a positive multiple of 16
\* the bytes handed to remove_padding have exactly the ciphertext's length.
C18_CiphertextLength ==
    Returned("decrypt_token") =>
        LET encrypted_seed == decode_base64_seed(arg.encrypted_seed_b64)
            iv == get_iv(arg.unique_iv)
            key == derive_key(arg.kdf_rounds, arg.salt, arg.passphrase)
        IN  encrypted_seed.ok =>
                IF Len(encrypted_seed.val) = 0 \/ Len(encrypted_seed.val) % 16 # 0
                THEN /\ ret.ok
                     /\ ret.line = 217
                     /\ HasPrefix(ret.val, Msg_DecryptionFailed)
                ELSE iv.ok =>
                         LET decrypted_data ==
                                 decrypt_data(encrypted_seed.val, key.val, iv.val)
                         IN  /\ decrypted_data.ok
                             /\ Len(decrypted_data.val) = Len(encrypted_seed.val)

\* The case of C18 has happened: an empty ciphertext gave "Decryption
\* failed: index out of range".
C18_Witness ==
    /\ Returned("decrypt_token")
    /\ arg.encrypted_seed_b64 = <<>>
    /\ ret.val = Msg_DecryptionFailed \o Msg_IndexOutOfRange

\* The printable-ASCII bytes of the argument, in their order and case.
PrintableOf(data) == SelectSeq(data, LAMBDA b : b >= 32 /\ b <= 126)

\* The two hexadecimal digits of a byte, in upper case.
HexPair(b) ==
    LET digits == <<48, 49, 50, 51, 52, 53, 54, 55, 56, 57, 65, 66, 67, 68, 69, 70>>
    IN  <<digits[(b \div 16) + 1], digits[(b % 16) + 1]>>

\* C17: for input that is not valid UTF-8 and whose uppercased printable
\* extraction has no run of 10 or more characters of [A-Z2-7=],
\* decode_decrypted_seed returns the extraction unchanged, in its original
\* case, when it has at least 8 characters, and otherwise the uppercase
\* hexadecimal rendering of the whole input, two characters per byte.
C17_AsciiOrHex ==
    (/\ Returned("decode_decrypted_seed")
     /\ ~utf8_decode(arg).ok
     /\ Base32Runs(Upper(PrintableOf(arg))) = {})
    => /\ ret.ok
       /\ IF Len(PrintableOf(arg)) >= 8
          THEN ret.line = 179 /\ ret.val = PrintableOf(arg)
          ELSE /\ ret.line = 181
               /\ Len(ret.val) = 2 * Len(arg)
               /\ \A k \in DOMAIN arg :
                      SubSeq(ret.val, 2 * k - 1, 2 * k) = HexPair(arg[k])

\* The case of C17 has happened: "a" and "!" before nine Base32 characters
\* and a non-printable byte came back as the eleven printable characters,
\* the "a" in lower case.
C17_Witness ==
    /\ Returned("decode_decrypted_seed")
    /\ arg = <<97, 33>> \o SubSeq(RunBase2, 1, 9) \o <<128>>
    /\ ret.line = 179
    /\ ret.val = <<97, 33>> \o SubSeq(RunBase2, 1, 9)

(***************************************************************************)
(* generate_uris.py: the library functions on text that it calls           *)
(***************************************************************************)
\* str.encode("utf-8") of one character (the texts of the model hold no
\* surrogates).
Utf8Encode(c) ==
    IF c < 128 THEN <<c>>
    ELSE IF c < 2048 THEN <<192 + c \div 64, 128 + (c % 64)>>
    ELSE IF c < 65536
         THEN <<224 + c \div 4096, 128 + ((c \div 64) % 64), 128 + (c % 64)>>
    ELSE <<240 + c \div 262144, 128 + ((c \div 4096) % 64),
           128 + ((c \div 64) % 64), 128 + (c % 64)>>

\* The bytes that urllib.parse.quote never escapes: letters, digits and
\* "_", ".", "-", "~".
IsUnreserved(b) ==
    \/ (b >= 65 /\ b <= 90)
    \/ (b >= 97 /\ b <= 122)
    \/ (b >= 48 /\ b <= 57)
    \/ b \in {95, 46, 45, 126}

\* "%XX" with upper-case hexadecimal digits
PercentEscape(b) == <<37, HexDigit(b \div 16), HexDigit(b % 16)>>

QuoteChar(c) ==
    LET bs == Utf8Encode(c) IN
    Concat([k \in DOMAIN bs |-> IF IsUnreserved(bs[k]) THEN <<bs[k]>>
                                ELSE PercentEscape(bs[k])])

\* urllib.parse.quote(s, safe="") (lines 84-87)
quote(s) == Concat([k \in DOMAIN s |-> QuoteChar(s[k])])

\* str.replace(a, b) for single characters a and b
ReplaceChar(s, a, b) == [k \in DOMAIN s |-> IF s[k] = a THEN b ELSE s[k]]

\* str.isspace() of one character
IsWhitespace(c) ==
    \/ (c >= 9 /\ c <= 13)
    \/ (c >= 28 /\ c <= 32)
    \/ c \in {133, 160, 5760, 8232, 8233, 8239, 8287, 12288}
    \/ (c >= 8192 /\ c <= 8202)

\* str.strip()
strip(s) ==
    LET solid == {k \in DOMAIN s : ~IsWhitespace(s[k])} IN
    IF solid = {} THEN <<>>
    ELSE SubSeq(s, CHOOSE k \in solid : \A j \in solid : k <= j,
                   CHOOSE k \in solid : \A j \in solid : k >= j)

\* str.split(" "): the pieces between single spaces, empty pieces included.
RECURSIVE split_space(_)
split_space(s) ==
    LET spaces == {k \in DOMAIN s : s[k] = 32} IN
    IF spaces = {} THEN <<s>>
    ELSE LET k == CHOOSE p \in spaces : \A q \in spaces : p <= q IN
         <<SubSeq(s, 1, k - 1)>> \o split_space(SubSeq(s, k + 1, Len(s)))

\* str.split(): the pieces between runs of white space, none of them empty.
RECURSIVE split_whitespace(_)
split_whitespace(s) ==
    LET t == strip(s)
        gaps == {k \in DOMAIN t : IsWhitespace(t[k])}
    IN  IF t = <<>> THEN <<>>
        ELSE IF gaps = {} THEN <<t>>
        ELSE LET k == CHOOSE p \in gaps : \A q \in gaps : p <= q IN
             <<SubSeq(t, 1, k - 1)>> \o split_whitespace(SubSeq(t, k + 1, Len(t)))

\* " ".join(words)
join_space(words) ==
    Concat([k \in DOMAIN words |->
               IF k = 1 THEN words[k] ELSE <<32>> \o words[k]])

\* str.lower() of one character, for the code points up to U+00FF.
LowerChar(c) ==
    IF c >= 65 /\ c <= 90 THEN c + 32
    ELSE IF c >= 192 /\ c <= 222 /\ c # 215 THEN c + 32
    ELSE c

\* str.lower()
Lower(s) == [k \in DOMAIN s |-> LowerChar(s[k])]

\* str.capitalize(): the first character in title case, the others in lower
\* case.  Title case is upper case for the code points up to U+00FF other
\* than U+00DF, and the names of the model hold no others.
capitalize(word) ==
    IF word = <<>> THEN <<>>
    ELSE UpperChar(word[1]) \o Lower(SubSeq(word, 2, Len(word)))

\* str.find(sub, start): the lowest 0-based index at or after start where
\* sub occurs, -1 when there is none.
find(s, sub, start) ==
    LET hits == {k \in start..(Len(s) - Len(sub)) :
                    SubSeq(s, k + 1, k + Len(sub)) = sub}
    IN  IF hits = {} THEN -1 ELSE CHOOSE k \in hits : \A j \in hits : k <= j

\* sub in s
Contains(s, sub) == find(s, sub, 0) # -1

\* Position k of s starts an escape "%XX".
IsEscapeStart(s, k) ==
    /\ k >= 1 /\ k + 2 <= Len(s)
    /\ s[k] = 37
    /\ HexValue(s[k + 1]) < 16
    /\ HexValue(s[k + 2]) < 16

\* The bytes that s denotes: an escape is its byte, any other character its
\* UTF-8 encoding ("%" not followed by two hexadecimal digits stays "%").
UnquoteToBytes(s) ==
    Concat([k \in DOMAIN s |->
               IF IsEscapeStart(s, k)
               THEN <<HexValue(s[k + 1]) * 16 + HexValue(s[k + 2])>>
               ELSE IF IsEscapeStart(s, k - 1) \/ IsEscapeStart(s, k - 2)
                    THEN <<>>
                    ELSE Utf8Encode(s[k])])

\* The number of bytes after the lead byte at p that continue its character
\* validly, at most w - 1.
RECURSIVE ValidTail(_, _, _, _)
ValidTail(d, p, w, k) ==
    IF k >= w \/ p + k > Len(d) THEN k - 1
    ELSE IF (k = 1 /\ ~Utf8SecondOk(d[p], d[p + 1])) \/ (k > 1 /\ ~IsCont(d[p + k]))
         THEN k - 1
         ELSE ValidTail(d, p, w, k + 1)

\* bytes.decode("utf-8", errors="replace"): each invalid byte, or valid
\* start of a character that is not completed, becomes U+FFFD.
RECURSIVE utf8_replace_from(_, _)
utf8_replace_from(d, p) ==
    IF p > Len(d) THEN <<>>
    ELSE LET w == Utf8Width(d[p]) IN
         IF w = 0 THEN <<65533>> \o utf8_replace_from(d, p + 1)
         ELSE LET m == ValidTail(d, p, w, 1) IN
              IF m = w - 1
              THEN <<Utf8CodePoint(d, p, w)>> \o utf8_replace_from(d, p + w)
              ELSE <<65533>> \o utf8_replace_from(d, p + 1 + m)

\* urllib.parse.unquote(s) (line 123)
unquote(s) == utf8_replace_from(UnquoteToBytes(s), 1)

(***************************************************************************)
(* generate_uris.py: convert_to_uris (lines 58-99)                         *)
(*                                                                         *)
(* A JSON value of a token is a text, an integer or null; a token record   *)
(* lists in "has" the keys that the document gives it.                     *)
(***************************************************************************)
V_Str(s) == [t |-> "str", s |-> s, n |-> 0]
V_Int(n) == [t |-> "int", s |-> <<>>, n |-> n]
V_None == [t |-> "null", s |-> <<>>, n |-> 0]

\* The truth value of a JSON value in a Python condition.
Truthy(v) == (v.t = "str" /\ v.s # <<>>) \/ (v.t = "int" /\ v.n # 0)

\* "None"
Txt_None ==
    <<78, 111, 110, 101>>

\* str(v)
str(v) == IF v.t = "str" THEN v.s ELSE IF v.t = "int" THEN Decimal(v.n) ELSE Txt_None

\* token.get(key)
token_get(token, key) == IF key \in token.has THEN token[key] ELSE V_None

\* "Error: Invalid JSON input."
Msg_InvalidJson ==
    <<69, 114, 114, 111, 114, 58, 32, 73, 110, 118, 97, 108, 105, 100, 32,
      74, 83, 79, 78, 32, 105, 110, 112, 117, 116, 46>>

\* "An unexpected error occurred: "
Msg_Unexpected ==
    <<65, 110, 32, 117, 110, 101, 120, 112, 101, 99, 116, 101, 100, 32,
      101, 114, 114, 111, 114, 32, 111, 99, 99, 117, 114, 114, 101, 100, 58,
      32>>

\* "'int' object has no attribute 'replace'"
Msg_IntNoReplace ==
    <<39, 105, 110, 116, 39, 32, 111, 98, 106, 101, 99, 116, 32, 104, 97,
      115, 32, 110, 111, 32, 97, 116, 116, 114, 105, 98, 117, 116, 101, 32,
      39, 114, 101, 112, 108, 97, 99, 101, 39>>

\* "'list' object has no attribute 'get'"
Msg_ListNoGet ==
    <<39, 108, 105, 115, 116, 39, 32, 111, 98, 106, 101, 99, 116, 32, 104,
      97, 115, 32, 110, 111, 32, 97, 116, 116, 114, 105, 98, 117, 116, 101,
      32, 39, 103, 101, 116, 39>>

\* "quote_from_bytes() expected bytes"
Msg_QuoteBytes ==
    <<113, 117, 111, 116, 101, 95, 102, 114, 111, 109, 95, 98, 121, 116,
      101, 115, 40, 41, 32, 101, 120, 112, 101, 99, 116, 101, 100, 32, 98,
      121, 116, 101, 115>>

\* "list index out of range"
Msg_ListIndex ==
    <<108, 105, 115, 116, 32, 105, 110, 100, 101, 120, 32, 111, 117, 116,
      32, 111, 102, 32, 114, 97, 110, 103, 101>>

\* "otpauth://totp/"
Txt_UriHead ==
    <<111, 116, 112, 97, 117, 116, 104, 58, 47, 47, 116, 111, 116, 112,
      47>>

\* "?secret="
Txt_UriSecret ==
    <<63, 115, 101, 99, 114, 101, 116, 61>>

\* "&digits="
Txt_UriDigits ==
    <<38, 100, 105, 103, 105, 116, 115, 61>>

\* "&algorithm=SHA1&period=30"
Txt_UriAlgorithm ==
    <<38, 97, 108, 103, 111, 114, 105, 116, 104, 109, 61, 83, 72, 65, 49,
      38, 112, 101, 114, 105, 111, 100, 61, 51, 48>>

\* "&issuer="
Txt_UriIssuer ==
    <<38, 105, 115, 115, 117, 101, 114, 61>>

\* A piece of a format string: literal text, or a replacement field.
Lit(text) == [lit |-> text, field |-> ""]
Field(name) == [lit |-> <<>>, field |-> name]

\* The format strings of lines 9-14.
FormatWithIssuerLast ==
    <<Lit(Txt_UriHead), Field("name"), Lit(Txt_UriSecret), Field("secret"),
      Lit(Txt_UriDigits), Field("digits"), Lit(Txt_UriAlgorithm),
      Lit(Txt_UriIssuer), Field("issuer")>>
FormatWithIssuerFirst ==
    <<Lit(Txt_UriHead), Field("issuer"), Lit(<<58>>), Field("name"),
      Lit(Txt_UriSecret), Field("secret"), Lit(Txt_UriDigits), Field("digits"),
      Lit(Txt_UriAlgorithm)>>

AppChoices == {"2FA", "Aegis", "Google Authenticator", "Microsoft Authenticator"}

URI_FORMATS ==
    [app \in AppChoices |->
        IF app \in {"2FA", "Aegis"} THEN FormatWithIssuerLast ELSE FormatWithIssuerFirst]

\* str.format(**values)
str_format(format, values) ==
    Concat([k \in DOMAIN format |->
               IF format[k].field = "" THEN format[k].lit
               ELSE values[format[k].field]])

\* Whether names are capitalised (line 7).
CAPITALIZE_NAME == TRUE

\* The name of line 78-79 out of the text of the "name" field.
clean_name(text) ==
    LET name == strip(ReplaceChar(ReplaceChar(text, 58, 32), 95, 32))
        words == split_space(name)
    IN  IF CAPITALIZE_NAME
        THEN join_space([k \in DOMAIN words |-> capitalize(words[k])])
        ELSE name

\* A plausible slip: a seed that is a failure text of decrypt.py is taken
\* for no seed.
token_uri_skips_failed(token, app_choice) ==
    LET raw_name == token_get(token, "name")
        raw_issuer == token_get(token, "issuer")
        secret == token_get(token, "decrypted_seed")
        digits == IF "digits" \in token.has THEN token.digits ELSE V_Int(6)
    IN  IF Truthy(raw_name) /\ raw_name.t # "str"
        THEN Raise(78, "AttributeError", Msg_IntNoReplace)
        ELSE IF Truthy(raw_issuer) /\ raw_issuer.t # "str"
        THEN Raise(80, "AttributeError", Msg_IntNoReplace)
        ELSE IF Truthy(secret) /\ secret.t # "str"
        THEN Raise(86, "TypeError", Msg_QuoteBytes)
        ELSE LET name == IF Truthy(raw_name) THEN clean_name(raw_name.s) ELSE <<>>
                 issuer == IF Truthy(raw_issuer)
                           THEN ReplaceChar(raw_issuer.s, 95, 32) ELSE <<>>
                 values == [name |-> quote(name),
                            issuer |-> quote(issuer),
                            secret |-> IF Truthy(secret) THEN quote(secret.s) ELSE <<>>,
                            digits |-> quote(str(digits))]
             IN  IF /\ name # <<>> /\ Truthy(secret) /\ app_choice \in DOMAIN URI_FORMATS
                    /\ ~HasPrefix(secret.s, Msg_DecryptionFailed)
                 THEN Return(92, [uris |-> <<str_format(URI_FORMATS[app_choice], values)>>,
                                  names |-> <<raw_name>>])
                 ELSE Return(89, [uris |-> <<>>, names |-> <<>>])

\* One iteration of the loop of lines 77-92: the URI appended, if any, or
\* the exception raised.
token_uri(token, app_choice) ==
    LET raw_name == token_get(token, "name")
        raw_issuer == token_get(token, "issuer")
        secret == token_get(token, "decrypted_seed")
        digits == IF "digits" \in token.has THEN token.digits ELSE V_Int(6)
    IN  IF Truthy(raw_name) /\ raw_name.t # "str"
        THEN Raise(78, "AttributeError", Msg_IntNoReplace)
        ELSE IF Truthy(raw_issuer) /\ raw_issuer.t # "str"
        THEN Raise(80, "AttributeError", Msg_IntNoReplace)
        ELSE IF Truthy(secret) /\ secret.t # "str"
        THEN Raise(86, "TypeError", Msg_QuoteBytes)
        ELSE LET name == IF Truthy(raw_name) THEN clean_name(raw_name.s) ELSE <<>>
                 issuer == IF Truthy(raw_issuer)
                           THEN ReplaceChar(raw_issuer.s, 95, 32) ELSE <<>>
                 values == [name |-> quote(name),
                            issuer |-> quote(issuer),
                            secret |-> IF Truthy(secret) THEN quote(secret.s) ELSE <<>>,
                            digits |-> quote(str(digits))]
             IN  IF name # <<>> /\ Truthy(secret) /\ app_choice \in DOMAIN URI_FORMATS
                 THEN Return(92, [uris |-> <<str_format(URI_FORMATS[app_choice], values)>>,
                                  names |-> <<raw_name>>])
                 ELSE Return(89, [uris |-> <<>>, names |-> <<>>])

\* The parsed documents: json.loads fails, gives a list, or gives an object
\* whose "decrypted_authenticator_tokens" is a list of token objects.
convert_to_uris(json_data, app_choice) ==
    IF json_data.kind = "invalid"
    THEN Return(97, [uris |-> <<Msg_InvalidJson>>, names |-> <<>>])
    ELSE IF json_data.kind = "array"
    THEN Return(99, [uris |-> <<Msg_Unexpected \o Msg_ListNoGet>>, names |-> <<>>])
    ELSE LET tokens_ == json_data.tokens
             steps == [k \in DOMAIN tokens_ |-> token_uri(tokens_[k], app_choice)]
             raising == {k \in DOMAIN steps : ~steps[k].ok}
         IN  IF raising # {}
             THEN LET k == CHOOSE p \in raising : \A q \in raising : p <= q IN
                  Return(99, [uris |-> <<Msg_Unexpected \o steps[k].msg>>,
                              names |-> <<>>])
             ELSE Return(94, [uris |-> Concat([k \in DOMAIN steps |-> steps[k].val.uris]),
                              names |-> Concat([k \in DOMAIN steps |-> steps[k].val.names])])

(***************************************************************************)
(* generate_uris.py: handle_uri_generation (lines 195-227) and what it     *)
(* calls (lines 102-192)                                                   *)
(***************************************************************************)
\* "totp/"
Txt_Totp ==
    <<116, 111, 116, 112, 47>>

\* "?secret"
Txt_QuerySecret ==
    <<63, 115, 101, 99, 114, 101, 116>>

\* "Unknown"
Txt_Unknown ==
    <<85, 110, 107, 110, 111, 119, 110>>

\* "Error"
Txt_Error ==
    <<69, 114, 114, 111, 114>>

\* extract_uri_name (lines 102-127)
extract_uri_name(uri) ==
    LET found == find(uri, Txt_Totp, 0) IN
    IF found = -1 THEN Txt_Unknown
    ELSE LET start == found + Len(Txt_Totp)
             end == find(uri, Txt_QuerySecret, start)
         IN  IF end = -1 THEN Txt_Unknown
             ELSE LET raw_name == Slice(uri, start, end)
                      decoded_name == unquote(raw_name)
                      cleaned_decoded ==
                          ReplaceChar(ReplaceChar(decoded_name, 95, 32), 47, 32)
                  IN  join_space(split_whitespace(cleaned_decoded))

\* str.rstrip(".")
rstrip_dots(s) ==
    LET kept == {k \in DOMAIN s : s[k] # 46} IN
    IF kept = {} THEN <<>>
    ELSE SubSeq(s, 1, CHOOSE k \in kept : \A j \in kept : k >= j)

\* normalize_name (lines 130-138)
normalize_name(name) == Lower(rstrip_dots(name))

\* a < b for two texts, as Python compares them
StrLess(a, b) ==
    LET n == IF Len(a) < Len(b) THEN Len(a) ELSE Len(b)
        diffs == {k \in 1..n : a[k] # b[k]}
    IN  IF diffs = {} THEN Len(a) < Len(b)
        ELSE LET k == CHOOSE p \in diffs : \A q \in diffs : p <= q IN a[k] < b[k]

\* list.sort(key=...) with the key normalize_name(x["name"]): a stable sort.
sort_by_name(items) ==
    LET key(k) == normalize_name(items[k].name)
        before(j, k) == StrLess(key(j), key(k)) \/ (key(j) = key(k) /\ j < k)
        rank(k) == Cardinality({j \in DOMAIN items : before(j, k)}) + 1
    IN  [r \in DOMAIN items |-> items[CHOOSE k \in DOMAIN items : rank(k) = r]]

\* str.startswith
startswith(s, prefix) ==
    Len(s) >= Len(prefix) /\ SubSeq(s, 1, Len(prefix)) = prefix

\* The while loop of lines 155-163, j being 0-based.
RECURSIVE sink(_, _)
sink(items, j) ==
    IF j <= 0 THEN items
    ELSE LET prev_name == normalize_name(items[j].name)
             curr_name == normalize_name(items[j + 1].name)
         IN  IF startswith(prev_name, curr_name) /\ Len(prev_name) > Len(curr_name)
             THEN sink([items EXCEPT ![j] = items[j + 1], ![j + 1] = items[j]], j - 1)
             ELSE items

\* F applied to the value of e, which is computed once however often F
\* refers to its argument.
ApplyTo(F(_), e) == CHOOSE r \in {F(x) : x \in {e}} : TRUE

\* The for loop of lines 153-163, from index k on (0-based).
RECURSIVE sink_all(_, _)
sink_all(items, k) ==
    IF k >= Len(items) THEN items
    ELSE LET rest(sunk) == sink_all(sunk, k + 1) IN ApplyTo(rest, sink(items, k))

\* custom_sort (lines 141-163)
custom_sort(items) ==
    LET fix_up(sorted) == sink_all(sorted, 1) IN ApplyTo(fix_up, sort_by_name(items))

\* f"{n:02}"
TwoDigits(n) == IF n < 10 THEN <<48>> \o Decimal(n) ELSE Decimal(n)

\* The loop of lines 217-221: the k-th URI gets its extracted name, with
\* the number of its occurrences so far when that is more than one.
unique_uri_items(uris) ==
    [k \in DOMAIN uris |->
        LET name == extract_uri_name(uris[k])
            count == Cardinality({j \in 1..k : extract_uri_name(uris[j]) = name})
        IN  [name |-> IF count > 1 THEN name \o <<32>> \o TwoDigits(count) ELSE name,
             uri |-> uris[k]]]

\* handle_uri_generation: its outcome and the two files after it.
handle_uri_generation(json_data, app_choice) ==
    LET save(items) ==
            [ret |-> Return(227, <<>>),
             files |-> [json |-> Written(items),
                        txt |-> Written([k \in DOMAIN items |-> items[k].uri])]]
        sorted_items(unsorted) == ApplyTo(save, custom_sort(unsorted))
        outcome(uris) ==
            IF uris = <<>>
            THEN [ret |-> Raise(206, "IndexError", Msg_ListIndex),
                  files |-> [json |-> NotWritten, txt |-> NotWritten]]
            ELSE IF Contains(uris[1], Txt_Error)
            THEN [ret |-> Return(208, <<>>),
                  files |-> [json |-> NotWritten, txt |-> NotWritten]]
            ELSE ApplyTo(sorted_items, unique_uri_items(uris))
    IN  ApplyTo(outcome, convert_to_uris(json_data, app_choice).val.uris)

(***************************************************************************)
(* Unit specification of generate_uris.py: convert_to_uris or              *)
(* handle_uri_generation is called on a document of a few tokens, for one  *)
(* of the applications that get_app_choice can return.                     *)
(***************************************************************************)
MaxUriTokens == 2

UriKeys == {"name", "issuer", "decrypted_seed", "digits"}

UriToken(has, name, issuer, decrypted_seed, digits) ==
    [has |-> has, name |-> name, issuer |-> issuer,
     decrypted_seed |-> decrypted_seed, digits |-> digits]

\* "GitHub:al"
Name_GitHub ==
    <<71, 105, 116, 72, 117, 98, 58, 97, 108>>

\* "aws_bob"
Name_Aws ==
    <<97, 119, 115, 95, 98, 111, 98>>

\* "x.y z"
Name_Dotted ==
    <<120, 46, 121, 32, 122>>

\* "Error log"
Name_ErrorLog ==
    <<69, 114, 114, 111, 114, 32, 108, 111, 103>>

\* "GitHub"
Issuer_GitHub ==
    <<71, 105, 116, 72, 117, 98>>

\* "my_co"
Issuer_MyCo ==
    <<109, 121, 95, 99, 111>>

\* "e-acute, space, A"
Seed_Accented ==
    <<233, 32, 65>>

\* The text that decrypt_token gives when the Base64 has incorrect padding.
Seed_Failure == Msg_DecryptionFailed \o Msg_IncorrectPadding

UriTokens ==
    { \* a Base32 secret, a hexadecimal one and a failure text
      UriToken(UriKeys, V_Str(Name_GitHub), V_Str(Issuer_GitHub), V_Str(Secret1), V_Int(6)),
      UriToken(UriKeys, V_Str(Name_Aws), V_Str(<<>>), V_Str(<<56, 48>>), V_Int(7)),
      UriToken(UriKeys, V_Str(Name_GitHub), V_Str(Issuer_MyCo), V_Str(Seed_Failure), V_Int(6)),
      \* the names "_" and "", a name that is a number, the name "Error log"
      UriToken(UriKeys, V_Str(<<95>>), V_Str(<<>>), V_Str(<<65>>), V_Int(6)),
      UriToken(UriKeys, V_Str(<<>>), V_Str(<<>>), V_Str(<<65>>), V_Int(6)),
      UriToken(UriKeys, V_Int(123), V_Str(<<>>), V_Str(<<65>>), V_Int(6)),
      UriToken(UriKeys, V_Str(Name_ErrorLog), V_Str(<<>>), V_Str(<<65>>), V_Int(6)),
      \* no seed and no digits, an empty seed, a seed that needs escaping
      UriToken({"name", "issuer"}, V_Str(<<120>>), V_Str(<<>>), V_None, V_None),
      UriToken(UriKeys, V_Str(<<120>>), V_Str(<<>>), V_Str(<<>>), V_Int(6)),
      UriToken(UriKeys \ {"digits"}, V_Str(Name_Dotted), V_None, V_Str(Seed_Accented), V_None) }

Documents ==
    {[kind |-> "object", tokens |-> ts] : ts \in SeqsUpTo(UriTokens, MaxUriTokens)}
        \cup {[kind |-> k, tokens |-> <<>>] : k \in {"invalid", "array"}}

InitUri ==
    /\ BatchIdle
    /\ UriIdle
    /\ MainIdle
    /\ callee \in {"convert_to_uris", "handle_uri_generation"}
    /\ arg \in [json_data : Documents, app_choice : AppChoices]
    /\ ret = Pending

CallConvertToUris ==
    /\ callee = "convert_to_uris"
    /\ ret = Pending
    /\ ret' = convert_to_uris(arg.json_data, arg.app_choice)
    /\ UNCHANGED <<callee, arg>>
    /\ UNCHANGED batch_vars
    /\ UNCHANGED uri_vars
    /\ UNCHANGED main_vars

CallHandleUriGeneration ==
    /\ callee = "handle_uri_generation"
    /\ ret = Pending
    /\ LET done == handle_uri_generation(arg.json_data, arg.app_choice) IN
       /\ ret' = done.ret
       /\ uri_files' = done.files
    /\ UNCHANGED <<callee, arg>>
    /\ UNCHANGED batch_vars
    /\ UNCHANGED main_vars

NextUri == CallConvertToUris \/ CallHandleUriGeneration

SpecUri == InitUri /\ [][NextUri]_vars

(***************************************************************************)
(* Properties of the URI generation                                        *)
(***************************************************************************)
\* The document parses to an object whose tokens give texts (or nothing)
\* for name, issuer and decrypted_seed.
TextDocument ==
    /\ arg.json_data.kind = "object"
    /\ \A k \in DOMAIN arg.json_data.tokens :
          \A f \in {"name", "issuer", "decrypted_seed"} :
              token_get(arg.json_data.tokens[k], f).t \in {"str", "null"}

\* The token has a non-empty name and a non-empty decrypted_seed.
HasNameAndSeed(token) ==
    /\ Truthy(token_get(token, "name"))
    /\ Truthy(token_get(token, "decrypted_seed"))

\* A character that survives the cleaning of a name: not ":", not "_" and
\* not white space.
IsNameChar(c) == c \notin {58, 95} /\ ~IsWhitespace(c)

\* The token has a name of which something is left after the cleaning, and
\* a non-empty decrypted_seed.
HasUsableNameAndSeed(token) ==
    /\ HasNameAndSeed(token)
    /\ \E k \in DOMAIN token.name.s : IsNameChar(token.name.s[k])

\* convert_to_uris has returned exactly one URI for each token that
\* qualifies, in the order of the tokens, with the escaped seed as the
\* secret, and none for the others.
OneUriPerToken(Qualifies(_)) ==
    LET chosen == SelectSeq(arg.json_data.tokens, Qualifies) IN
    /\ ret.ok
    /\ ret.line = 94
    /\ Len(ret.val.uris) = Len(chosen)
    /\ Len(ret.val.names) = Len(chosen)
    /\ \A k \in DOMAIN chosen :
          /\ ret.val.names[k] = chosen[k].name
          /\ HasPrefix(ret.val.uris[k], Txt_UriHead)
          /\ Contains(ret.val.uris[k],
                      Txt_UriSecret \o quote(chosen[k].decrypted_seed.s) \o Txt_UriDigits)

\* C19: for a parseable document and a known application, convert_to_uris
\* emits exactly one URI for each token that has a non-empty name and a
\* non-empty decrypted_seed, in token order, and none for the others,
\* whatever the decrypted_seed holds, with the secret percent-encoded.
C19_OneUriPerNamedToken ==
    (Returned("convert_to_uris") /\ TextDocument /\ arg.app_choice \in AppChoices)
        => OneUriPerToken(HasNameAndSeed)

\* C19 as amended: the tokens that get a URI are those with a non-empty
\* decrypted_seed whose name is not empty once ":" and "_" are replaced by
\* spaces and the white space around it is stripped.
C19_OneUriPerUsableName ==
    (Returned("convert_to_uris") /\ TextDocument /\ arg.app_choice \in AppChoices)
        => OneUriPerToken(HasUsableNameAndSeed)

\* "secret=Decryption%20failed%3A%20Incorrect%20padding&digits=6"
Txt_FailureEscaped ==
    <<115, 101, 99, 114, 101, 116, 61, 68, 101, 99, 114, 121, 112, 116,
      105, 111, 110, 37, 50, 48, 102, 97, 105, 108, 101, 100, 37, 51, 65,
      37, 50, 48, 73, 110, 99, 111, 114, 114, 101, 99, 116, 37, 50, 48, 112,
      97, 100, 100, 105, 110, 103, 38, 100, 105, 103, 105, 116, 115, 61,
      54>>

\* The case of C19 has happened: of a token named "_" and a token whose
\* seed is a failure text, only the second got a URI, the text escaped.
C19_Witness ==
    /\ Returned("convert_to_uris")
    /\ arg.json_data.kind = "object"
    /\ Len(arg.json_data.tokens) = 2
    /\ arg.json_data.tokens[1].name = V_Str(<<95>>)
    /\ arg.json_data.tokens[1].decrypted_seed = V_Str(<<65>>)
    /\ arg.json_data.tokens[2].decrypted_seed = V_Str(Seed_Failure)
    /\ Len(ret.val.uris) = 1
    /\ Contains(ret.val.uris[1], Txt_FailureEscaped)

\* Both files have been written, or neither.
BothWritten == uri_files.json.written /\ uri_files.txt.written
NoneWritten == ~uri_files.json.written /\ ~uri_files.txt.written

\* C20: whenever convert_to_uris reports an error (the invalid-JSON message
\* or the "An unexpected error occurred: ..." message) handle_uri_generation
\* prints it and returns without writing URIs.json or URIs.txt, and whenever
\* convert_to_uris succeeds with at least one URI both files are written.
C20_ErrorsStopOutput ==
    Returned("handle_uri_generation") =>
        LET converted == convert_to_uris(arg.json_data, arg.app_choice) IN
        /\ converted.line \in {97, 99} => (ret.line = 208 /\ NoneWritten)
        /\ (converted.line = 94 /\ converted.val.uris # <<>>) =>
               (ret.line = 227 /\ BothWritten)

(***************************************************************************)
(* main.py: main() starts the three scripts in order (lines 101-116);      *)
(* run_script (lines 58-73) waits for the script and leaves the program    *)
(* with status 1 when its return code is not 0.                            *)
(***************************************************************************)
MaxAnswers == 3

\* The dictionary of line 101, in its insertion order.
scripts ==
    << [script |-> "decrypt.py", requires_confirmation |-> FALSE],
       [script |-> "generate_uris.py", requires_confirmation |-> FALSE],
       [script |-> "generate_qr_codes.py", requires_confirmation |-> TRUE] >>

\* "y", "yes", ""  (line 107)
YesResponses == {<<121>>, <<121, 101, 115>>, <<>>}

\* "n", "no"  (line 110)
NoResponses == {<<110>>, <<110, 111>>}

\* input(...).strip().lower()  (line 106)
user_input(line) == Lower(strip(line))

\* The lines that the user types: "y", "Y", "yes", " Yes ", "", "  ", "n",
\* "NO", "no ", "maybe", "ye", "y es", "nope".
TypedLines ==
    { <<121>>, <<89>>, <<121, 101, 115>>, <<32, 89, 101, 115, 32>>, <<>>,
      <<32, 32>>, <<110>>, <<78, 79>>, <<110, 111, 32>>,
      <<109, 97, 121, 98, 101>>, <<121, 101>>, <<121, 32, 101, 115>>,
      <<110, 111, 112, 101>> }

\* The return codes of a script: 0, an exit status of its own, or the
\* negative number of the signal that killed it.
ReturnCodes == {-9, 0, 1, 2}

InitMain ==
    /\ BatchIdle
    /\ UriIdle
    /\ callee = "none"
    /\ arg = <<>>
    /\ ret = Pending
    /\ main_pc = "loop"
    /\ script_index = 0
    /\ started = <<>>
    /\ return_codes = <<>>
    /\ answers = <<>>
    /\ skipped = <<>>
    /\ exit_status = <<>>

\* The for loop is at a script (line 103).
AtScript == main_pc = "loop" /\ script_index < Len(scripts)

\* Lines 115-116 and 69: a script that needs no confirmation is started.
RunWithoutConfirmation ==
    /\ AtScript
    /\ ~scripts[script_index + 1].requires_confirmation
    /\ started' = Append(started, scripts[script_index + 1].script)
    /\ main_pc' = "running"
    /\ UNCHANGED <<script_index, return_codes, answers, skipped, exit_status>>
    /\ UNCHANGED batch_vars
    /\ UNCHANGED unit_vars
    /\ UNCHANGED uri_vars

\* Lines 106-108 and 69: the answer is one of "y", "yes", "" and the script
\* is started.
AnswerYes ==
    /\ AtScript
    /\ scripts[script_index + 1].requires_confirmation
    /\ Len(answers) < MaxAnswers
    /\ \E line \in TypedLines :
          /\ user_input(line) \in YesResponses
          /\ answers' = Append(answers, line)
    /\ started' = Append(started, scripts[script_index + 1].script)
    /\ main_pc' = "running"
    /\ UNCHANGED <<script_index, return_codes, skipped, exit_status>>
    /\ UNCHANGED batch_vars
    /\ UNCHANGED unit_vars
    /\ UNCHANGED uri_vars

\* Lines 106, 110-112: the answer is "n" or "no"; the loop goes on to the
\* next script.
AnswerNo ==
    /\ AtScript
    /\ scripts[script_index + 1].requires_confirmation
    /\ Len(answers) < MaxAnswers
    /\ \E line \in TypedLines :
          /\ user_input(line) \notin YesResponses
          /\ user_input(line) \in NoResponses
          /\ answers' = Append(answers, line)
    /\ skipped' = Append(skipped, scripts[script_index + 1].script)
    /\ script_index' = script_index + 1
    /\ UNCHANGED <<main_pc, started, return_codes, exit_status>>
    /\ UNCHANGED batch_vars
    /\ UNCHANGED unit_vars
    /\ UNCHANGED uri_vars

\* Lines 106, 113-114: any other answer; the while loop asks again.
AnswerInvalid ==
    /\ AtScript
    /\ scripts[script_index + 1].requires_confirmation
    /\ Len(answers) < MaxAnswers
    /\ \E line \in TypedLines :
          /\ user_input(line) \notin YesResponses
          /\ user_input(line) \notin NoResponses
          /\ answers' = Append(answers, line)
    /\ UNCHANGED <<main_pc, script_index, started, return_codes, skipped,
                   exit_status>>
    /\ UNCHANGED batch_vars
    /\ UNCHANGED unit_vars
    /\ UNCHANGED uri_vars

\* Line 106 with the standard input at its end: input() raises EOFError,
\* which nothing catches, and the interpreter leaves with status 1.
InputRaises ==
    /\ AtScript
    /\ scripts[script_index + 1].requires_confirmation
    /\ main_pc' = "exited"
    /\ exit_status' = <<1>>
    /\ UNCHANGED <<script_index, started, return_codes, answers, skipped>>
    /\ UNCHANGED batch_vars
    /\ UNCHANGED unit_vars
    /\ UNCHANGED uri_vars

\* Line 69 returns: the script has exited with return code 0, and the for
\* loop goes on to the next script.
ScriptSucceeds ==
    /\ main_pc = "running"
    /\ return_codes' = Append(return_codes, 0)
    /\ script_index' = script_index + 1
    /\ main_pc' = "loop"
    /\ UNCHANGED <<started, answers, skipped, exit_status>>
    /\ UNCHANGED batch_vars
    /\ UNCHANGED unit_vars
    /\ UNCHANGED uri_vars

\* A plausible slip: the except clause prints the failure and returns.
ScriptFails_goes_on ==
    /\ main_pc = "running"
    /\ \E code \in ReturnCodes \ {0} : return_codes' = Append(return_codes, code)
    /\ script_index' = script_index + 1
    /\ main_pc' = "loop"
    /\ UNCHANGED <<started, answers, skipped, exit_status>>
    /\ UNCHANGED batch_vars
    /\ UNCHANGED unit_vars
    /\ UNCHANGED uri_vars

\* Lines 69-73: the return code is not 0, subprocess.run raises
\* CalledProcessError and run_script calls exit(1).
ScriptFails ==
    /\ main_pc = "running"
    /\ \E code \in ReturnCodes \ {0} : return_codes' = Append(return_codes, code)
    /\ main_pc' = "exited"
    /\ exit_status' = <<1>>
    /\ UNCHANGED <<script_index, started, answers, skipped>>
    /\ UNCHANGED batch_vars
    /\ UNCHANGED unit_vars
    /\ UNCHANGED uri_vars

\* Lines 119-121: the loop is over and main() returns; the program leaves
\* with status 0.
MainReturns ==
    /\ main_pc = "loop"
    /\ script_index = Len(scripts)
    /\ main_pc' = "exited"
    /\ exit_status' = <<0>>
    /\ UNCHANGED <<script_index, started, return_codes, answers, skipped>>
    /\ UNCHANGED batch_vars
    /\ UNCHANGED unit_vars
    /\ UNCHANGED uri_vars

NextMain ==
    \/ RunWithoutConfirmation
    \/ AnswerYes
    \/ AnswerNo
    \/ AnswerInvalid
    \/ InputRaises
    \/ ScriptSucceeds
    \/ ScriptFails
    \/ MainReturns

SpecMain == InitMain /\ [][NextMain]_vars

\* The order in which the claim names the scripts.
ScriptOrder == <<"decrypt.py", "generate_uris.py", "generate_qr_codes.py">>

\* The answer as main() reads it: without surrounding white space, in lower
\* case.
IsYes(line) == Lower(strip(line)) \in {<<121>>, <<121, 101, 115>>, <<>>}
IsNo(line) == Lower(strip(line)) \in {<<110>>, <<110, 111>>}

\* All answers before the last one were neither a yes nor a no.
EarlierAnswersInvalid ==
    \A k \in 1..(Len(answers) - 1) : ~IsYes(answers[k]) /\ ~IsNo(answers[k])

\* C21: the scripts are started in the order decrypt.py, generate_uris.py,
\* generate_qr_codes.py, each one only after the one before it has exited
\* with return code 0; when a started script exits with another return code
\* the program exits with status 1 and starts no later script;
\* generate_qr_codes.py is started only after an answer y, yes or the empty
\* answer, the answer n or no skips it without running it, and any other
\* answer makes main() ask again without running or skipping it.
C21_ScriptRunnerOrdering ==
    /\ Len(started) <= Len(ScriptOrder)
    /\ \A k \in DOMAIN started : started[k] = ScriptOrder[k]
    /\ Len(return_codes) \in {Len(started) - 1, Len(started)}
    /\ \A k \in 2..Len(started) : return_codes[k - 1] = 0
    /\ \A k \in DOMAIN return_codes :
          return_codes[k] # 0 => exit_status = <<1>> /\ Len(started) = k
    /\ Len(started) < 2 \/ (Len(started) = 2 /\ Len(return_codes) = 1)
          => answers = <<>> /\ skipped = <<>>
    /\ Len(started) = 3
          => /\ answers # <<>>
             /\ IsYes(answers[Len(answers)])
             /\ EarlierAnswersInvalid
             /\ skipped = <<>>
    /\ skipped # <<>>
          => /\ skipped = <<"generate_qr_codes.py">>
             /\ Len(started) = 2
             /\ answers # <<>>
             /\ IsNo(answers[Len(answers)])
             /\ EarlierAnswersInvalid
    /\ (answers # <<>> /\ \A k \in DOMAIN answers :
                             ~IsYes(answers[k]) /\ ~IsNo(answers[k]))
          => /\ Len(started) = 2
             /\ skipped = <<>>
             /\ exit_status = <<>> => main_pc = "loop" /\ script_index = 2

\* generate_qr_codes.py was started after an invalid answer and a yes, and
\* exited with a return code other than 0.
C21_Witness ==
    /\ started = ScriptOrder
    /\ Len(answers) >= 2
    /\ Len(return_codes) = 3
    /\ return_codes[3] # 0
    /\ exit_status = <<1>>

(***************************************************************************)
(* Unit specification of the labels of handle_uri_generation (lines        *)
(* 214-221): it is called on documents whose tokens share names, among     *)
(* them a name that looks like a numbered one.                             *)
(***************************************************************************)
MaxLabelTokens == 3

\* "Acme"
Name_Acme ==
    <<65, 99, 109, 101>>

\* "Acme 02"
Name_Acme02 ==
    <<65, 99, 109, 101, 32, 48, 50>>

LabelTokens ==
    { UriToken(UriKeys, V_Str(Name_Acme), V_Str(<<>>), V_Str(<<65>>), V_Int(6)),
      UriToken(UriKeys, V_Str(Name_Acme), V_Str(Issuer_GitHub), V_Str(<<66>>), V_Int(6)),
      UriToken(UriKeys, V_Str(Name_Acme02), V_Str(<<>>), V_Str(<<65>>), V_Int(6)),
      UriToken(UriKeys, V_Str(Name_Aws), V_Str(<<>>), V_Str(<<65>>), V_Int(6)) }

LabelDocuments ==
    {[kind |-> "object", tokens |-> ts] : ts \in SeqsUpTo(LabelTokens, MaxLabelTokens)}

InitLabels ==
    /\ BatchIdle
    /\ UriIdle
    /\ MainIdle
    /\ callee = "handle_uri_generation"
    /\ arg \in [json_data : LabelDocuments, app_choice : AppChoices]
    /\ ret = Pending

NextLabels == CallHandleUriGeneration

SpecLabels == InitLabels /\ [][NextLabels]_vars

\* C22: the "name" values of the items written to URIs.json are pairwise
\* distinct.
C22_UniqueLabels ==
    uri_files.json.written =>
        \A j, k \in DOMAIN uri_files.json.content :
            j # k => uri_files.json.content[j].name # uri_files.json.content[k].name

=============================================================================
